---- MODULE Spec2Model ----
(***************************************************************************)
(* Model of the quantity resolution and caching engine of                  *)
(* helita.sim.ebysus.EbysusData: get_var, _load_quantity and its decorator *)
(* stack, the result cache, the raw-file stage and the pool of memmaps.    *)
(*                                                                         *)
(* The object is one record, dd (the name the source uses for an           *)
(* EbysusData instance).  Every method is an operator from an object (and  *)
(* its arguments) to a result record [dd, t, val, exc] holding the object  *)
(* after the call, the trace of what the call did, the returned value and  *)
(* the name of the exception that left the call ("" when it returned).     *)
(* A call from outside is one action; the trace is not kept in the state.  *)
(* The files of the simulation directory that cannot be opened are kept    *)
(* with the object, in dd.unreadable, which no method of the object reads  *)
(* or writes: only opening a file looks at it.                             *)
(***************************************************************************)
EXTENDS Integers, Sequences, FiniteSets, TLC

VARIABLES dd

vars == <<dd>>

(* ----------------------------- bounds ---------------------------------- *)
\* snapshots are numbered 1..MaxSnap
MaxSnap == 2
\* species are numbered 1..MaxSpecies
MaxSpecies == 2

Snaps == 1..MaxSnap
(* self.snap is one snapshot or an array of snapshots: nd is the length of *)
(* np.shape(self.snap), v the snapshot(s)                                  *)
Scalar(s) == [nd |-> 0, v |-> <<s>>]
ArrayOf(l) == [nd |-> 1, v |-> l]
SnapArrays == {ArrayOf([i \in 1..MaxSnap |-> i])}
SnapVals == {Scalar(s) : s \in Snaps} \cup SnapArrays
\* the single snapshot in use: self.snap, or self.snap[self.snapInd]
currSnap(o) == IF o.snap.nd = 0 THEN o.snap.v[1] ELSE o.snap.v[o.snapInd + 1]
\* the fluids selected in the pipeline: level 1 of each species, and the electrons
Electrons == <<-1, 0>>
Fluids == {<<s, 1>> : s \in 1..MaxSpecies}
Slices == {"all", "sub"}

(* an optional argument: <<>> is Python's None, <<x>> a given x *)
None == <<>>
Some(x) == <<x>>
Opt(S) == {None} \cup {Some(x) : x \in S}
OrElse(opt, default) == IF opt = None THEN default ELSE opt[1]

MATCH_PHYSICS == 0
MATCH_AUX == 1
MATCH_TYPE_DEFAULT == MATCH_PHYSICS

AXES == {"x", "y", "z"}

(* ----------------------------- values ---------------------------------- *)
(* An array is identified by the formula that made it (q, by: the stage),  *)
(* the match_type the formula looked at (-1: none) and the file regions    *)
(* read for it, each <<filename, offset, slice>>.                          *)
NoneVal == [q |-> "None", by |-> 0, mt |-> -1, reads |-> <<>>]

\* approximate byte size of an array: a sliced array is half a full one
FullBytes == 2
nbytes(val) ==
    IF val.reads = <<>> THEN 0
    ELSE IF val.reads[1][3] = "all" THEN FullBytes ELSE FullBytes \div 2

(* ----------------------------- metadata -------------------------------- *)
METADATA_ATTRS == <<"ifluid", "jfluid", "snap", "iix", "iiy", "iiz", "match_type", "panic">>

Range(s) == {s[i] : i \in DOMAIN s}

\* a mutant of _metadata: the snapshot is left out of the recorded attributes
_metadata_nosnap(o, with_nfluid) ==
    LET attrs == Range(METADATA_ATTRS) \
                   ({"snap"} \cup (IF with_nfluid < 2 THEN {"jfluid"} ELSE {})
                             \cup (IF with_nfluid < 1 THEN {"ifluid"} ELSE {}))
    IN  [a \in attrs |-> o[a]]

\* a mutant of _metadata: both fluids are recorded whatever with_nfluid is
_metadata_both_fluids(o, with_nfluid) ==
    [a \in Range(METADATA_ATTRS) \cup (IF o.snap.nd > 0 THEN {"snaps"} ELSE {}) |->
        IF a = "snap" THEN o.snap.v[IF o.snap.nd = 0 THEN 1 ELSE o.snapInd + 1]
        ELSE IF a = "snaps" THEN o.snap.v
        ELSE o[a]]

\* getattr(self, attr) as _metadata records it: of an array of snaps, the single snap
meta_attr(o, a) ==
    IF a = "snap" THEN currSnap(o)
    ELSE IF a = "snaps" THEN o.snap.v
    ELSE o[a]

\* EbysusData._metadata: the dict of the attributes a value depends on
_metadata(o, with_nfluid) ==
    LET a1 == IF with_nfluid < 2 THEN SelectSeq(METADATA_ATTRS, LAMBDA a : a # "jfluid")
              ELSE METADATA_ATTRS
        a0 == IF with_nfluid < 1 THEN SelectSeq(a1, LAMBDA a : a # "ifluid")
              ELSE a1
        keys == Range(a0) \cup (IF o.snap.nd > 0 THEN {"snaps"} ELSE {})
    IN  [a \in keys |-> meta_attr(o, a)]

\* file_memory._dict_is_subset: every key of d1 is a key of d2 with an equal value
_dict_is_subset(d1, d2) ==
    \A k \in DOMAIN d1 : k \in DOMAIN d2 /\ d1[k] = d2[k]

\* file_memory._dict_equals: the same keys with equal values, ignore_keys aside
_dict_equals(d1, d2, ignore_keys) ==
    /\ (DOMAIN d1) \ ignore_keys = (DOMAIN d2) \ ignore_keys
    /\ \A k \in (DOMAIN d1) \ ignore_keys : d1[k] = d2[k]

\* fluid_tools.fluid_equals: species and level match
fluid_equals(iSL, jSL) == iSL[1] = jSL[1] /\ iSL[2] = jSL[2]

\* a mutant of _metadata_is_consistent: the two dicts must be equal
_metadata_is_equal(o, alt_metadata) ==
    alt_metadata = _metadata(o, 2)

\* a mutant of _metadata_is_consistent: the live metadata is a subset of alt_metadata
_metadata_is_consistent_reversed(o, alt_metadata) ==
    _dict_is_subset(_metadata(o, 2), alt_metadata)

\* EbysusData._metadata_is_consistent: alt_metadata is a subset of the live metadata
_metadata_is_consistent(o, alt_metadata) ==
    _dict_is_subset(alt_metadata, _metadata(o, 2))

\* a mutant of _metadata_matches: the subset match is used in its place
_metadata_matches_as_subset(o, alt_metadata) ==
    _dict_is_subset(alt_metadata, _metadata(o, 2))

(* EbysusData._metadata_matches: a fluid that alt_metadata has, and that   *)
(* is not None there, equals the live one; the other keys are the same     *)
(* with equal values.                                                      *)
_metadata_matches(o, alt_metadata) ==
    /\ \A f \in {"ifluid", "jfluid"} :
          (f \in DOMAIN alt_metadata /\ alt_metadata[f] # None)
              => fluid_equals(alt_metadata[f], _metadata(o, 2)[f])
    /\ _dict_equals(alt_metadata, _metadata(o, 2), {"ifluid", "jfluid"})

(* ----------------------------- result cache ---------------------------- *)
(* file_memory.Cache: entries in order of use, least recently used first.  *)
(* An entry is [var, metadata, value, nbytes]; ctx is not part of the      *)
(* program: it remembers the whole context the entry was written under.    *)

RECURSIVE SumBytes(_)
SumBytes(entries) ==
    IF entries = <<>> THEN 0 ELSE Head(entries).nbytes + SumBytes(Tail(entries))

RemoveAt(s, i) == SubSeq(s, 1, i - 1) \o SubSeq(s, i + 1, Len(s))

\* a mutant of cache_is_full: only the number of arrays is looked at
cache_is_full_Narr(entries, max_bytes, max_Narr) == Len(entries) > max_Narr

\* Cache is full: more arrays or more bytes than allowed
cache_is_full(entries, max_bytes, max_Narr) ==
    Len(entries) > max_Narr \/ SumBytes(entries) > max_bytes

\* evict least recently used entries until both budgets are met
RECURSIVE cache_shrink(_, _, _)
cache_shrink(entries, max_bytes, max_Narr) ==
    IF entries # <<>> /\ cache_is_full(entries, max_bytes, max_Narr)
    THEN cache_shrink(Tail(entries), max_bytes, max_Narr)
    ELSE entries

\* a mutant of cache_put: an entry larger than the byte budget is put like any other
cache_put_any(entries, entry, max_bytes, max_Narr) ==
    cache_shrink(Append(SelectSeq(entries,
                            LAMBDA e : ~(e.var = entry.var /\ e.metadata = entry.metadata)),
                        entry),
                 max_bytes, max_Narr)

\* put: insert or overwrite, then evict; an entry larger than the byte budget is rejected
cache_put(entries, entry, max_bytes, max_Narr) ==
    IF entry.nbytes > max_bytes THEN entries
    ELSE LET others == SelectSeq(entries,
                          LAMBDA e : ~(e.var = entry.var /\ e.metadata = entry.metadata))
         IN  cache_shrink(Append(others, entry), max_bytes, max_Narr)

\* a mutant of cache_promote: a use does not change the order
cache_nopromote(entries, i) == entries

\* a use of entry i makes it the most recently used
cache_promote(entries, i) == Append(RemoveAt(entries, i), entries[i])

\* the most recently used entry of var that is valid for the live context (0: none)
cache_lookup(o, var) ==
    LET ok == {i \in DOMAIN o.cache :
                  /\ o.cache[i].var = var
                  /\ _metadata_is_consistent(o, o.cache[i].metadata)}
    IN  IF ok = {} THEN 0 ELSE CHOOSE i \in ok : \A j \in ok : j <= i

\* EbysusData.caching (set in __init__): whether any caching is done now
caching(o) == o.do_caching /\ ~o._force_disable_memory

\* a mutant of set_do_caching: the cache is emptied when caching is turned off
set_do_caching_clearing(o, do_caching) ==
    [o EXCEPT !.do_caching = do_caching, !.cache = IF do_caching THEN @ ELSE <<>>]

\* self.do_caching = do_caching: caching 'can be enabled or disabled at any point'
set_do_caching(o, do_caching) == [o EXCEPT !.do_caching = do_caching]

(* ----------------------------- memmap pool ----------------------------- *)
(* obj._memory_numpy_memmap, an ordered dict: the keys in order of use.    *)
(* A mapping is determined by its key, so the pool is the sequence of keys.*)

\* a mutant of manage_memmaps: no memmap is ever forgotten
manage_memmaps_all(pool, N_memmap) == pool

\* file_memory.manage_memmaps: forget the oldest memmaps beyond N_memmap (-1: keep all)
manage_memmaps(pool, N_memmap) ==
    IF N_memmap = -1 \/ Len(pool) <= N_memmap THEN pool
    ELSE SubSeq(pool, Len(pool) - N_memmap + 1, Len(pool))

IndexOf(s, x) == IF \E i \in DOMAIN s : s[i] = x
                 THEN CHOOSE i \in DOMAIN s : s[i] = x /\ \A j \in 1..(i - 1) : s[j] # x
                 ELSE 0

(* ----------------------------- file layout ---------------------------- *)
\* grid of a snapshot and the size of one element (np.dtype(self.dtype).itemsize)
nx == 2
ny == 2
nzb == 2
dsize == 4

\* levels of every species (self.att[ispecies].params.nlevel)
MaxLevel == 2
nlevel(ispecies) == MaxLevel
mf_nspecies == MaxSpecies
mf_total_nlevel == MaxSpecies * MaxLevel

\* the lists _set_snapvars builds for a snapshot whose aux list is 'mm_cross mm_nu'
snaprvars == <<"r">>
snappvars == <<"px", "py", "pz">>
snapvars == <<"r", "px", "py", "pz">>
snapevars == <<"e">>
mhdvars == <<"bx", "by", "bz">>
auxvars == <<>>
varsmf == <<>>
varsmfr == <<>>
varsmfp == <<>>
varsmfe == <<>>
varsmfc == <<>>
varsmm == <<"mm_cross", "mm_nu">>

simple_vars(o) ==
    IF o.ebysus_like
    THEN snaprvars \o snappvars \o snapevars \o mhdvars \o auxvars \o
         varsmf \o varsmfr \o varsmfp \o varsmfe \o varsmfc \o varsmm
    ELSE snapvars \o snapevars \o mhdvars \o auxvars \o varsmf \o
         varsmfr \o varsmfp \o varsmfe \o varsmfc \o varsmm

In(x, s) == \E i \in DOMAIN s : s[i] = x

\* str(n).zfill(2) as its two characters; '-' is -1
zfill2(n) == IF n < 0 THEN <<-1, -n>> ELSE <<n \div 10, n % 10>>

\* a mutant of jdx_of: jfluid itself is counted too
jdx_of_inclusive(o) ==
    Cardinality({SL \in (1..mf_nspecies) \X (1..MaxLevel) :
                    /\ SL[2] <= nlevel(SL[1])
                    /\ \/ SL[1] < o.jfluid[1]
                       \/ SL[1] = o.jfluid[1] /\ SL[2] <= o.jfluid[2]})

\* a mutant of jdx_of: only the fluids of the species before jfluid's are counted
jdx_of_species_only(o) ==
    Cardinality({SL \in (1..mf_nspecies) \X (1..MaxLevel) :
                    /\ SL[2] <= nlevel(SL[1])
                    /\ SL[1] < o.jfluid[1]})

\* number of fluids (species, level) before jfluid in species-major order
jdx_of(o) ==
    Cardinality({SL \in (1..mf_nspecies) \X (1..MaxLevel) :
                    /\ SL[2] <= nlevel(SL[1])
                    /\ \/ SL[1] < o.jfluid[1]
                       \/ SL[1] = o.jfluid[1] /\ SL[2] < o.jfluid[2]})

(* which file group var is read from, in the order of the if/elif chain:   *)
(* [grp, list, fluid (the name is formatted with iS, iL), snap (.snap, not *)
(* .aux), mm]; grp "" when no branch takes var (ValueError).               *)
file_group(o, var) ==
    LET pos == o.ifluid[1] > 0
        neg == o.ifluid[1] < 0
        G(grp, list, fluid, snp) ==
            [grp |-> grp, list |-> list, fluid |-> fluid, snap |-> snp, mm |-> grp = "mm"]
    IN  IF (In(var, mhdvars) /\ pos) \/ var \in {"bx", "by", "bz"}
             THEN G("mf_common", mhdvars, FALSE, TRUE)
        ELSE IF o.ebysus_like /\ In(var, snaprvars) /\ pos THEN G("mfr", snaprvars, TRUE, TRUE)
        ELSE IF o.ebysus_like /\ In(var, snappvars) /\ pos THEN G("mfp", snappvars, TRUE, TRUE)
        ELSE IF ~o.ebysus_like /\ In(var, snapvars) /\ pos THEN G("mf", snapvars, TRUE, TRUE)
        ELSE IF In(var, snapevars) /\ pos THEN G("mfe", snapevars, TRUE, TRUE)
        ELSE IF In(var, snapevars) /\ neg THEN G("mf_e", snapevars, FALSE, TRUE)
        ELSE IF In(var, auxvars) THEN G("aux", auxvars, FALSE, FALSE)
        ELSE IF In(var, varsmf)  THEN G("mfa", varsmf, TRUE, FALSE)
        ELSE IF In(var, varsmfr) THEN G("mfr", varsmfr, TRUE, FALSE)
        ELSE IF In(var, varsmfp) THEN G("mfp", varsmfp, TRUE, FALSE)
        ELSE IF In(var, varsmfe) THEN G("mfe", varsmfe, TRUE, FALSE)
        ELSE IF In(var, varsmfc) THEN G("mfc", varsmfc, TRUE, FALSE)
        ELSE IF In(var, varsmm)  THEN G("mm", varsmm, TRUE, FALSE)
        ELSE G("", <<>>, FALSE, FALSE)

(* The file name and the memmap arguments of a variable of file group g:  *)
(* [exc, filename, offset, shape].  A file name is                         *)
(* [snapdir, grp, iSL, snapstr, suffix].                                   *)
_file_info_of_group(o, var, panic, g) ==
    LET currStr == IF currSnap(o) > 0 THEN Some(currSnap(o)) ELSE None
        _reading_scr == currSnap(o) < 0
        idx == IndexOf(g.list, var) - 1
        mf_arr_size == IF g.mm THEN mf_total_nlevel ELSE 1
        \* _reading_ebysuslike_snap is set True in both branches
        _snapdir == "io"
        suffix == (IF g.snap THEN ".snap" ELSE ".aux") \o (IF _reading_scr THEN ".scr" ELSE "")
        offset == nx * ny * nzb * idx * dsize * mf_arr_size
                    + (IF g.mm THEN nx * ny * nzb * jdx_of(o) * dsize ELSE 0)
    IN  IF g.grp = ""
        THEN [exc |-> "ValueError", filename |-> None, offset |-> 0, shape |-> <<>>]
        \* the panic branch reads _fsuffix_panic, a name that is never assigned
        ELSE IF panic
        THEN [exc |-> "NameError", filename |-> None, offset |-> 0, shape |-> <<>>]
        ELSE [exc |-> "",
              filename |-> Some([snapdir |-> _snapdir, grp |-> g.grp,
                                 iSL |-> IF g.fluid
                                         THEN <<zfill2(o.ifluid[1]), zfill2(o.ifluid[2])>>
                                         ELSE <<>>,
                                 snapstr |-> currStr, suffix |-> suffix]),
              offset |-> offset,
              shape |-> <<nx, ny, nzb>>]

\* EbysusData._get_simple_var_file_info
_get_simple_var_file_info(o, var, panic) ==
    _file_info_of_group(o, var, panic, file_group(o, var))

(* ----------------------------- results and traces --------------------- *)
(* The trace of a top-level call: the producer stages invoked (stages),    *)
(* the _load_quantity calls that ended (calls), the cache entries returned *)
(* (hits), the values taken from self.variables (pre), the cache entries   *)
(* written (puts), the files opened (opens), the mappings acquired (acqs), *)
(* the names the cache was searched for (lookups), the calls of help       *)
(* (helps), the files that could not be opened (fails), and the errors     *)
(* that _init_vars_get hid (hides) or turned into a warning (warns).       *)
NoTrace == [stages |-> <<>>, calls |-> <<>>, hits |-> <<>>, pre |-> <<>>, puts |-> <<>>,
            opens |-> <<>>, acqs |-> <<>>, lookups |-> <<>>, helps |-> <<>>,
            fails |-> <<>>, hides |-> <<>>, warns |-> <<>>]

R(o, t, val, exc) == [dd |-> o, t |-> t, val |-> val, exc |-> exc]

\* the keyword arguments of get_var; Req(var) is get_var(var)
Req(var) == [var |-> var, snap |-> None, ifluid |-> None, jfluid |-> None,
             match_type |-> None, panic |-> FALSE, iix |-> None,
             check_cache |-> TRUE, cache |-> FALSE, cache_with_nfluid |-> None]

\* a mutant of the caching keywords: the flags of the request are not passed on
KwCaching_defaults(req) ==
    [check_cache |-> TRUE, cache |-> FALSE, cache_with_nfluid |-> None]

KwCaching(req) == [check_cache |-> req.check_cache, cache |-> req.cache,
                   cache_with_nfluid |-> req.cache_with_nfluid]

(* ----------------------------- raw-file stage -------------------------- *)
(* np.memmap: whether the file can be opened, and the error when it cannot; *)
(* unreadable holds a record [file, err] for a file that cannot be opened. *)
\* whether np.memmap can open the file: the directory '<file_root>.io' is there only
\* for an ebysus-like snapshot, and the file is none of those that cannot be read
can_open(o, filename) ==
    /\ filename.snapdir = "io" => o.ebysus_like
    /\ \A u \in o.unreadable : u.file # filename
open_error(o, filename) ==
    IF filename.snapdir = "io" /\ ~o.ebysus_like THEN "FileNotFoundError"
    ELSE (CHOOSE u \in o.unreadable : u.file = filename).err

\* the trace after key was acquired: recalled or opened, the pool before and after
Acquired(t, key, recalled, before, after) ==
    [t EXCEPT !.opens = IF recalled THEN @ ELSE Append(@, key),
              !.acqs = Append(@, [key |-> key, recalled |-> recalled,
                                  before |-> before, after |-> after])]

\* a mutant of get_numpy_memmap: a mapping in the pool is never recalled
get_numpy_memmap_norecall(o, t, filename, kw) ==
    LET key == [filename |-> filename, offset |-> kw.offset, shape |-> kw.shape,
                dtype |-> "float32", order |-> "F", mode |-> "r"]
        pool == manage_memmaps(Append(o.memmaps, key), o.N_memmap)
    IN  IF kw.obj
        THEN R([o EXCEPT !.memmaps = pool],
               Acquired(t, key, FALSE, o.memmaps, pool), key, "")
        ELSE R(o, Acquired(t, key, FALSE, <<>>, <<>>), key, "")

\* a mutant of get_numpy_memmap: the mapping is remembered also when obj is None
get_numpy_memmap_always_remembered(o, t, filename, kw) ==
    LET key == [filename |-> filename, offset |-> kw.offset, shape |-> kw.shape,
                dtype |-> "float32", order |-> "F", mode |-> "r"]
        i == IndexOf(o.memmaps, key)
        recalled == Append(RemoveAt(o.memmaps, i), key)
        remembered == Append(o.memmaps, key)
    IN  IF i > 0
        THEN R([o EXCEPT !.memmaps = recalled],
               Acquired(t, key, TRUE, o.memmaps, recalled), key, "")
        ELSE R([o EXCEPT !.memmaps = remembered],
               Acquired(t, key, FALSE, o.memmaps, remembered), key, "")

(* get_numpy_memmap under manage_memmaps and remember_and_recall(ORDERED): *)
(* with obj given, a key already in the pool is recalled and becomes the   *)
(* most recent; otherwise the file is opened and the mapping remembered.   *)
get_numpy_memmap(o, t, filename, kw) ==
    LET key == [filename |-> filename, offset |-> kw.offset, shape |-> kw.shape,
                dtype |-> "float32", order |-> "F", mode |-> "r"]
        i == IndexOf(o.memmaps, key)
        recalled == Append(RemoveAt(o.memmaps, i), key)
        remembered == manage_memmaps(Append(o.memmaps, key), o.N_memmap)
    IN  IF kw.obj /\ i > 0
        THEN R([o EXCEPT !.memmaps = recalled],
               Acquired(t, key, TRUE, o.memmaps, recalled), key, "")
        ELSE IF ~can_open(o, filename)
        THEN R(o, [t EXCEPT !.fails = Append(@, [file |-> filename,
                                                 err |-> open_error(o, filename)])],
               NoneVal, open_error(o, filename))
        ELSE IF kw.obj
        THEN R([o EXCEPT !.memmaps = remembered],
               Acquired(t, key, FALSE, o.memmaps, remembered), key, "")
        ELSE R(o, Acquired(t, key, FALSE, <<>>, <<>>), key, "")

\* a mutant of _get_simple_var: a file that cannot be opened is a variable not found
_memmap_as_value_swallow(var, m) ==
    IF m.exc # "" THEN R(m.dd, m.t, NoneVal, "")
    ELSE R(m.dd, m.t,
           [q |-> var, by |-> 1, mt |-> -1,
            reads |-> << <<m.val.filename, m.val.offset, "all">> >>], "")

\* the result of _get_simple_var from the result m of get_numpy_memmap
_memmap_as_value(var, m) ==
    IF m.exc # "" THEN R(m.dd, m.t, NoneVal, m.exc)
    ELSE R(m.dd, m.t,
           [q |-> var, by |-> 1, mt |-> -1,
            reads |-> << <<m.val.filename, m.val.offset, "all">> >>], "")

\* the end of _get_simple_var: the memmap of the file that info names
_get_simple_var_of_info(o, t, var, info) ==
    IF info.exc # "" THEN R(o, t, NoneVal, info.exc)
    ELSE _memmap_as_value(var,
             get_numpy_memmap(o, t, info.filename[1],
                 [offset |-> info.offset, shape |-> info.shape, obj |-> o.N_memmap # 0]))

\* a mutant of _get_simple_var: the test 'var not in self.simple_vars' is missing
_get_simple_var_nocheck(o, t, var, panic) ==
    _get_simple_var_of_info(o, t, var, _get_simple_var_file_info(o, var, panic))

\* EbysusData._get_simple_var: the memmap of a simple variable, or None
_get_simple_var(o, t, var, panic) ==
    IF var = "" THEN R(o, t, NoneVal, "")
    ELSE IF ~In(var, simple_vars(o)) THEN R(o, t, NoneVal, "")
    ELSE _get_simple_var_of_info(o, t, var, _get_simple_var_file_info(o, var, panic))

\* the value of load_fromfile_quantities from the result r of _get_simple_var
_sliced(o, r) ==
    IF r.exc # "" \/ r.val = NoneVal THEN r
    ELSE [r EXCEPT !.val.reads[1][3] = o.iix]

\* load_fromfile_quantities: the simple variable, sliced with the active range
load_fromfile_quantities(o, t, var, panic) ==
    _sliced(o, _get_simple_var(o, t, var, panic))

(* ----------------------------- initialisation of variables ------------ *)
RECURSIVE _init_vars_get_loop(_, _, _, _)

\* a mutant of _hidden_errors_append: no error is ever deleted
_hidden_errors_append_unbounded(o, entry) == Append(o._hidden_errors, entry)

\* self._hidden_errors after entry was added: beyond the maximal length the first goes
_hidden_errors_append(o, entry) ==
    IF Len(o._hidden_errors) + 1 > o._hidden_errors_max_len
    THEN Tail(Append(o._hidden_errors, entry))
    ELSE Append(o._hidden_errors, entry)

\* a mutant of _init_vars_get_turn: a failure to read 'r' is raised every time
_init_vars_get_turn_raising(o, varlist, firstime, r) ==
    LET var == Head(varlist)
    IN  IF r.exc = ""
        THEN _init_vars_get_loop(
                 [r.dd EXCEPT !.variables =
                      [k \in DOMAIN @ \cup {var, "metadata"} |->
                          IF k = var THEN r.val
                          ELSE IF k = "metadata" THEN _metadata(r.dd, 2)
                          ELSE @[k]]],
                 r.t, Tail(varlist), firstime)
        ELSE IF var = "r" THEN R(r.dd, r.t, NoneVal, r.exc)
        ELSE _init_vars_get_loop(r.dd, [r.t EXCEPT !.warns = Append(@, <<var, r.exc>>)],
                                 Tail(varlist), firstime)

\* one turn of the loop of _init_vars_get: r is the result of reading var
_init_vars_get_turn(o, varlist, firstime, r) ==
    LET var == Head(varlist)
    IN  IF r.exc = ""
        THEN _init_vars_get_loop(
                 [r.dd EXCEPT !.variables =
                      [k \in DOMAIN @ \cup {var, "metadata"} |->
                          IF k = var THEN r.val
                          ELSE IF k = "metadata" THEN _metadata(r.dd, 2)
                          ELSE @[k]]],
                 r.t, Tail(varlist), firstime)
        ELSE IF var = "r" /\ firstime THEN R(r.dd, r.t, NoneVal, r.exc)
        ELSE IF r.exc = "ValueError" /\ (o.ifluid[1] < 0 \/ o.ifluid[2] < 0)
        THEN _init_vars_get_loop(
                 [r.dd EXCEPT !._hidden_errors = _hidden_errors_append(r.dd, <<var, r.exc>>)],
                 [r.t EXCEPT !.hides = Append(@, <<var, r.exc>>)], Tail(varlist), firstime)
        ELSE _init_vars_get_loop(r.dd, [r.t EXCEPT !.warns = Append(@, <<var, r.exc>>)],
                                 Tail(varlist), firstime)

\* the loop of _init_vars_get over varlist
_init_vars_get_loop(o, t, varlist, firstime) ==
    IF varlist = <<>> THEN R(o, t, NoneVal, "")
    ELSE _init_vars_get_turn(o, varlist, firstime,
                             _get_simple_var(o, t, Head(varlist), FALSE))

\* EbysusData._init_vars_get
_init_vars_get(o, t, firstime) ==
    _init_vars_get_loop(o, t, IF o.fast THEN <<"r">> ELSE simple_vars(o), firstime)

\* EbysusData._init_vars
_init_vars(o, t, firstime) ==
    IF o._fast_skip_flag = "True" THEN R(o, t, NoneVal, "")
    ELSE LET o1 == [o EXCEPT !._fast_skip_flag = IF @ = "False" THEN "True" ELSE @,
                             !.variables = <<>>]
         IN  IF ~firstime THEN _init_vars_get(o1, t, FALSE)
             ELSE R(o1, t, NoneVal, "")

(* ----------------------------- set_snap -------------------------------- *)
\* BifrostData.set_snap: the snapshot becomes snap and the variables are initialised
BifrostData_set_snap(o, t, snap) ==
    _init_vars([o EXCEPT !.snap = snap, !.snapInd = 0], t, FALSE)

\* a mutant of set_snap: the memmaps in memory are never deleted
set_snap_keeping_memmaps(o, t, snap) == BifrostData_set_snap(o, t, snap)

\* EbysusData.set_snap: with mm_persnap the memmaps in memory are deleted first
set_snap(o, t, snap) ==
    BifrostData_set_snap(IF o.mm_persnap /\ o.snap.nd = 0
                         THEN [o EXCEPT !.memmaps = <<>>] ELSE o, t, snap)

(* ----------------------------- resolution pipeline -------------------- *)
RECURSIVE get_var(_, _, _, _)

(* The derived-quantity stages are collaborators; these stand for them.    *)
(* Each claims some names and computes a claimed name from the density of  *)
(* a nested get_var: 'tg' is claimed by load_quantities and by             *)
(* load_mf_quantities, 'nrj' (read for jfluid) by load_mf_quantities and   *)
(* 'r2' (read with match_type MATCH_AUX) by load_arithmetic_quantities.    *)
stage_claims(k) ==
    CASE k = 2 -> {"tg"}
      [] k = 3 -> {"tg", "nrj"}
      [] k = 4 -> {"r2"}

nested_request(o, var) ==
    CASE var = "tg"  -> Req("r")
      [] var = "nrj" -> [Req("r") EXCEPT !.ifluid = Some(o.jfluid)]
      [] var = "r2"  -> [Req("r") EXCEPT !.match_type = Some(MATCH_AUX)]

derived_stage(o, t, k, var, d) ==
    IF var \notin stage_claims(k) THEN R(o, t, NoneVal, "")
    ELSE LET r == get_var(o, t, nested_request(o, var), d + 1)
         IN  IF r.exc # "" THEN r
             ELSE [r EXCEPT !.val = [q |-> var, by |-> k,
                                     mt |-> IF var = "nrj" THEN o.match_type ELSE -1,
                                     reads |-> r.val.reads]]

load_quantities(o, t, var, d) == derived_stage(o, t, 2, var, d)
load_mf_quantities(o, t, var, d) == derived_stage(o, t, 3, var, d)
load_arithmetic_quantities(o, t, var, d) == derived_stage(o, t, 4, var, d)

\* the trace after stage k has been invoked for var and ended with r
Staged(r, k, var, d) ==
    [r EXCEPT !.t.stages = Append(@, [d |-> d, var |-> var, k |-> k, val |-> r.val,
                                      res |-> IF r.exc # "" THEN "raise"
                                              ELSE IF r.val = NoneVal THEN "absent"
                                              ELSE "value"])]

\* whether a stage that ended with r ends the search
Found(r) == r.exc # "" \/ r.val # NoneVal

\* a mutant of _load_quantity: load_mf_quantities is tried before load_quantities
_mf_first_after_2(r3, var, d) ==
    IF Found(r3) THEN r3
    ELSE Staged(load_arithmetic_quantities(r3.dd, r3.t, var, d), 4, var, d)

_mf_first_after_3(r2, var, d) ==
    IF Found(r2) THEN r2
    ELSE _mf_first_after_2(Staged(load_quantities(r2.dd, r2.t, var, d), 2, var, d), var, d)

_mf_first_after_1(r1, var, d) ==
    IF Found(r1) THEN r1
    ELSE _mf_first_after_3(Staged(load_mf_quantities(r1.dd, r1.t, var, d), 3, var, d), var, d)

_load_quantity_mf_first(o, t, var, panic, d) ==
    IF /\ var \in DOMAIN o.variables
       /\ _metadata_matches(o, IF "metadata" \in DOMAIN o.variables
                               THEN o.variables["metadata"] ELSE <<>>)
    THEN R(o, [t EXCEPT !.pre = Append(@, [d |-> d, var |-> var])], o.variables[var], "")
    ELSE _mf_first_after_1(Staged(load_fromfile_quantities(o, t, var, panic), 1, var, d),
                           var, d)

\* _load_quantity after load_mf_quantities ended with r3
_after_load_mf_quantities(r3, var, d) ==
    IF Found(r3) THEN r3
    ELSE Staged(load_arithmetic_quantities(r3.dd, r3.t, var, d), 4, var, d)

\* _load_quantity after load_quantities ended with r2
_after_load_quantities(r2, var, d) ==
    IF Found(r2) THEN r2
    ELSE _after_load_mf_quantities(
             Staged(load_mf_quantities(r2.dd, r2.t, var, d), 3, var, d), var, d)

\* _load_quantity returning what load_fromfile_quantities returned, None included
_stop_after_load_fromfile_quantities(r1, var, d) == r1

\* _load_quantity after load_fromfile_quantities ended with r1
_after_load_fromfile_quantities(r1, var, d) ==
    IF Found(r1) THEN r1
    ELSE _after_load_quantities(
             Staged(load_quantities(r1.dd, r1.t, var, d), 2, var, d), var, d)

\* the body of EbysusData._load_quantity
_load_quantity__wrapped(o, t, var, panic, d) ==
    IF /\ var \in DOMAIN o.variables
       /\ _metadata_matches(o, IF "metadata" \in DOMAIN o.variables
                               THEN o.variables["metadata"] ELSE <<>>)
    THEN R(o, [t EXCEPT !.pre = Append(@, [d |-> d, var |-> var])], o.variables[var], "")
    ELSE _after_load_fromfile_quantities(
             Staged(load_fromfile_quantities(o, t, var, panic), 1, var, d), var, d)

\* the attributes of the context as they are now
LiveContext(o) == [a \in Range(METADATA_ATTRS) |-> meta_attr(o, a)]

\* the entry with_caching writes for val, computed for var in the context of o
CacheEntry(o, var, nfluid, val) ==
    [var |-> var, metadata |-> _metadata(o, nfluid), value |-> val,
     nbytes |-> nbytes(val), ctx |-> LiveContext(o), nfluid |-> nfluid]

\* with_caching after the wrapped function ended with r: the value is put in the
\* cache when the call asks for it
_cache_write(o, var, kw, d, r) ==
    IF r.exc # "" \/ r.val = NoneVal \/ ~(kw.cache \/ kw.cache_with_nfluid # None) THEN r
    ELSE [r EXCEPT !.dd.cache =
              cache_put(@, CacheEntry(o, var, OrElse(kw.cache_with_nfluid, 2), r.val),
                        r.dd.cache_max_bytes, r.dd.cache_max_Narr),
                   !.t.puts = Append(@,
              [d |-> d,
               entry |-> CacheEntry(o, var, OrElse(kw.cache_with_nfluid, 2), r.val)])]

\* with_caching after the lookup found entry i (0: none)
_cache_checked(o, t, var, panic, kw, d, i) ==
    IF i > 0
    THEN R([o EXCEPT !.cache = cache_promote(@, i)],
           [t EXCEPT !.hits = Append(@, [d |-> d, entry |-> o.cache[i],
                                        live |-> LiveContext(o)])],
           o.cache[i].value, "")
    ELSE _cache_write(o, var, kw, d, _load_quantity__wrapped(o, t, var, panic, d))

(* file_memory.with_caching: a valid entry of var is returned and becomes  *)
(* the most recent; otherwise the value is computed and, when the call     *)
(* asks for it, put in the cache under the context of the request.         *)
with_caching(o, t, var, panic, kw, d) ==
    IF ~caching(o) THEN _load_quantity__wrapped(o, t, var, panic, d)
    ELSE _cache_checked(o,
                        IF kw.check_cache
                        THEN [t EXCEPT !.lookups = Append(@, [d |-> d, var |-> var])]
                        ELSE t,
                        var, panic, kw, d,
                        IF kw.check_cache THEN cache_lookup(o, var) ELSE 0)

\* the record of a call of _load_quantity that ended with r and left the object as back
CallRecord(o, var, d, r, back) ==
    [d |-> d, var |-> var, val |-> r.val,
     how |-> IF r.exc # "" THEN "raise"
             ELSE IF r.val = NoneVal THEN "absent" ELSE "return",
     entry |-> <<o.ifluid, o.jfluid, o.match_type>>,
     panic |-> <<o.panic, o.snap>>,
     inner |-> <<r.dd.ifluid, r.dd.jfluid, r.dd.match_type>>,
     exit  |-> <<back.ifluid, back.jfluid, back.match_type>>]

_unmaintained(o, var, d, r) ==
    [r EXCEPT !.t.calls = Append(@, CallRecord(o, var, d, r, r.dd))]

\* a mutant of _load_quantity: the decorators that restore the fluids are missing
_load_quantity_unmaintained(o, t, var, panic, kw, d) ==
    _unmaintained(o, var, d, with_caching(o, t, var, panic, kw, d))

\* fluid_tools.maintain_fluids: on every way out, the fluids are those at entry
maintain_fluids(entry, after) ==
    [after EXCEPT !.ifluid = entry.ifluid, !.jfluid = entry.jfluid]

\* file_memory.maintain_attrs('match_type'): on every way out, the attribute is as at entry
maintain_attrs_match_type(entry, after) ==
    [after EXCEPT !.match_type = entry.match_type]

\* the way out of the decorated _load_quantity, the function under them ended with r
_maintained(o, var, d, r) ==
    [r EXCEPT !.dd = maintain_fluids(o, maintain_attrs_match_type(o, r.dd)),
              !.t.calls = Append(@,
                  CallRecord(o, var, d, r,
                             maintain_fluids(o, maintain_attrs_match_type(o, r.dd))))]

(* EbysusData._load_quantity as decorated: under maintain_fluids, under    *)
(* maintain_attrs('match_type'), under with_caching.                       *)
_load_quantity(o, t, var, panic, kw, d) ==
    _maintained(o, var, d, with_caching(o, t, var, panic, kw, d))

\* fluid_tools.set_fluids: the fluids named in the call are set, the others kept
set_fluids(o, ifluid, jfluid) ==
    [o EXCEPT !.ifluid = OrElse(ifluid, @), !.jfluid = OrElse(jfluid, @)]

\* BifrostData.set_domain_iiaxes: the slices named in the call are set
set_domain_iiaxes(o, iix) == [o EXCEPT !.iix = OrElse(iix, @)]

(* BifrostData._get_var_postprocess: for the name '' the documentation is   *)
(* shown and None returned; for another name a value of None is an unknown *)
(* variable.                                                               *)
_get_var_postprocess(r, var) ==
    IF r.exc = "" /\ r.val = NoneVal /\ var # ""
    THEN [r EXCEPT !.exc = "UnknownVariable"] ELSE r

\* get_var after the snapshot was set, with s3: the slices are set and the value loaded
_get_var_load(req, d, s3) ==
    IF s3.exc # "" THEN s3
    ELSE _get_var_postprocess(
             _load_quantity(set_domain_iiaxes([s3.dd EXCEPT !.panic = req.panic], req.iix),
                            s3.t, req.var, req.panic, KwCaching(req), d),
             req.var)

\* a mutant of get_var: set_snap is called whenever the call names a snapshot
_get_var_set_snap_always(o2, t, req, d) ==
    _get_var_load(req, d,
                  IF req.snap # None
                  THEN set_snap(o2, t, req.snap[1])
                  ELSE R(o2, t, NoneVal, ""))

\* get_var after match_type and the fluids were set, the object being o2
_get_var_set_snap(o2, t, req, d) ==
    _get_var_load(req, d,
                  IF req.snap # None /\ req.snap[1] # o2.snap
                  THEN set_snap(o2, t, req.snap[1])
                  ELSE R(o2, t, NoneVal, ""))

\* document_vars.creating_vardict: whether obj is creating its documentation now
creating_vardict(o) == o._creating_vardict

\* the start of get_var: help(self.get_var) for the name '' outside create_vardict
_get_var_help(o, t, req, d) ==
    IF req.var = "" /\ ~creating_vardict(o)
    THEN [t EXCEPT !.helps = Append(@, [d |-> d])] ELSE t

\* getattr(self, var) for a name of AXES: the coordinates along that axis
Coordinates(var) == [NoneVal EXCEPT !.q = var]

\* a mutant of get_var: the name '' returns before anything is set or looked up
get_var_short_circuit(o, t, req, d) ==
    IF req.var = "" THEN R(o, _get_var_help(o, t, req, d), NoneVal, "")
    ELSE IF req.var \in AXES
    THEN R(o, _get_var_help(o, t, req, d), Coordinates(req.var), "")
    ELSE _get_var_set_snap(
             set_fluids([o EXCEPT !.match_type = OrElse(req.match_type, @)],
                        req.ifluid, req.jfluid),
             _get_var_help(o, t, req, d), req, d)

\* a mutant of get_var: the names of AXES return after match_type and the fluids are set
get_var_axes_late(o, t, req, d) ==
    IF req.var \in AXES
    THEN R(set_fluids([o EXCEPT !.match_type = OrElse(req.match_type, @)],
                      req.ifluid, req.jfluid),
           _get_var_help(o, t, req, d), Coordinates(req.var), "")
    ELSE _get_var_set_snap(
             set_fluids([o EXCEPT !.match_type = OrElse(req.match_type, @)],
                        req.ifluid, req.jfluid),
             _get_var_help(o, t, req, d), req, d)

\* EbysusData.get_var
get_var(o, t, req, d) ==
    IF req.var \in AXES THEN R(o, _get_var_help(o, t, req, d), Coordinates(req.var), "")
    ELSE _get_var_set_snap(
             set_fluids([o EXCEPT !.match_type = OrElse(req.match_type, @)],
                        req.ifluid, req.jfluid),
             _get_var_help(o, t, req, d), req, d)

\* the end of create_vardict: the flag is lowered when get_var('') returned
_create_vardict_end(r) ==
    IF r.exc # "" THEN r ELSE [r EXCEPT !.dd._creating_vardict = FALSE]

\* document_vars.create_vardict: get_var('') with the flag up
create_vardict(o, t) ==
    _create_vardict_end(get_var([o EXCEPT !._creating_vardict = TRUE], t, Req(""), 0))

(* ----------------------------- construction --------------------------- *)
\* the first snapshot of the simulation, loaded by the constructor
FirstSnap == 1

\* the last step of __init__: self._init_vars_get(firstime=True)
_init_vars_get_firstime(r) == _init_vars_get(r.dd, r.t, TRUE)

(* EbysusData.__init__: the attributes set from the arguments, then        *)
(* BifrostData.__init__ (which loads the snapshot and calls _init_vars for *)
(* the first time) and _init_vars_get(firstime=True).                      *)
EbysusData(cfg) ==
    LET o0 == [match_type |-> MATCH_TYPE_DEFAULT,
               N_memmap |-> cfg.N_memmap, mm_persnap |-> cfg.mm_persnap,
               do_caching |-> cfg.do_caching /\ ~cfg._force_disable_memory,
               _force_disable_memory |-> cfg._force_disable_memory,
               cache |-> <<>>,
               cache_max_bytes |-> cfg.cache_max_bytes,
               cache_max_Narr |-> cfg.cache_max_Narr,
               panic |-> FALSE,
               fast |-> cfg.fast,
               _fast_skip_flag |-> IF cfg.fast THEN "False" ELSE "None",
               ebysus_like |-> cfg.ebysus_like,
               snap |-> Scalar(FirstSnap), snapInd |-> 0,
               iix |-> "all", iiy |-> "all", iiz |-> "all",
               ifluid |-> <<1, 1>>, jfluid |-> <<1, 1>>,
               memmaps |-> <<>>, variables |-> <<>>,
               _hidden_errors |-> <<>>, _hidden_errors_max_len |-> 100,
               _creating_vardict |-> FALSE,
               unreadable |-> cfg.unreadable]
    IN  _init_vars_get_firstime(_init_vars(o0, NoTrace, TRUE))

(* ----------------------------- the actions ----------------------------- *)
Config(N_memmap, mm_persnap, do_caching, cache_max_bytes, cache_max_Narr, fast) ==
    [N_memmap |-> N_memmap, mm_persnap |-> mm_persnap, do_caching |-> do_caching,
     _force_disable_memory |-> FALSE, cache_max_bytes |-> cache_max_bytes,
     cache_max_Narr |-> cache_max_Narr, fast |-> fast, ebysus_like |-> TRUE,
     unreadable |-> {}]

\* a call of dd.get_var from outside, with one of the requests reqs
GetVar(reqs) ==
    \E req \in reqs : dd' = get_var(dd, NoTrace, req, 0).dd

\* a call of dd.set_snap from outside
SetSnap(snaps) ==
    \E snap \in snaps : dd' = set_snap(dd, NoTrace, snap).dd

\* a call of dd.set_fluids from outside
SetFluids(ifluids, jfluids) ==
    \E i \in Opt(ifluids), j \in Opt(jfluids) : dd' = set_fluids(dd, i, j)

\* a call of document_vars.create_vardict(dd) from outside
CreateVardict ==
    dd' = create_vardict(dd, NoTrace).dd

(* ----------------------------- Spec: the stages ------------------------ *)
(* Requests that resolve a name under the context as it is, and requests   *)
(* that name one field of the context.                                     *)
Vars == {"r", "tg", "nrj", "r2", "zz"}
AllFluids == Fluids \cup {Electrons}

Resolving(names, writes) ==
    {q \in [var : names, snap : {None}, ifluid : {None}, jfluid : {None},
            match_type : {None}, panic : BOOLEAN, iix : {None},
            check_cache : BOOLEAN, cache : BOOLEAN, cache_with_nfluid : writes] :
        q.cache => q.cache_with_nfluid = None}

Naming(names, snaps, ifluids, jfluids, match_types, slices) ==
    {q \in [var : names, snap : Opt(snaps), ifluid : Opt(ifluids), jfluid : Opt(jfluids),
            match_type : Opt(match_types), panic : {FALSE}, iix : Opt(slices),
            check_cache : {TRUE}, cache : {FALSE}, cache_with_nfluid : {None}] :
        Cardinality({f \in {"snap", "ifluid", "jfluid", "match_type", "iix"} :
                            q[f] # None}) = 1}

Requests ==
    {q \in Resolving(Vars, {None}) :
        /\ q.panic => q.var = "r" /\ ~q.cache
        /\ q.cache => q.var \in {"tg", "nrj", "zz"}}
      \cup Naming({"r", "zz"}, {Scalar(s) : s \in Snaps}, {}, AllFluids, {}, {})

Init == dd = EbysusData(Config(1, TRUE, TRUE, FullBytes, 1, TRUE)).dd

Next == GetVar(Requests) \/ SetSnap({Scalar(s) : s \in Snaps}) \/ SetFluids({}, AllFluids)

Spec == Init /\ [][Next]_vars

\* the result of get_var(req) in the state as it is
Call(req) == get_var(dd, NoTrace, req, 0)

\* the elements of a sequence as a set, and the part of a trace that is of depth d
At(seq, d) == SelectSeq(seq, LAMBDA e : e.d = d)
Depths == {0, 1}

(* C5 as stated: a name that every stage returns absent for fails with     *)
(* UnknownVariable, and the result cache and the pool of memmaps hold the  *)
(* same entries after the failed call as before it.                        *)
C5_UnknownLeavesCacheAndPool ==
    \A req \in Requests :
        req.var = "zz" =>
            /\ Call(req).exc = "UnknownVariable"
            /\ Range(Call(req).dd.cache) = Range(dd.cache)
            /\ Range(Call(req).dd.memmaps) = Range(dd.memmaps)

(* C5 as amended: the call fails with UnknownVariable and the cache holds  *)
(* the same entries; the pool holds the same entries when the request      *)
(* names no other snapshot than the current one.                           *)
C5_UnknownLeavesCache ==
    \A req \in Requests :
        req.var = "zz" =>
            /\ Call(req).exc = "UnknownVariable"
            /\ Call(req).t.stages # <<>>
            /\ \A i \in DOMAIN Call(req).t.stages : Call(req).t.stages[i].res = "absent"
            /\ Range(Call(req).dd.cache) = Range(dd.cache)
            /\ (req.snap = None \/ req.snap[1] = dd.snap) =>
                   Range(Call(req).dd.memmaps) = Range(dd.memmaps)

\* an unknown name is asked for while the cache and the pool hold an entry each
C5_Witness ==
    /\ dd.cache # <<>> /\ dd.memmaps # <<>>
    /\ Call(Req("zz")).exc = "UnknownVariable"
    /\ Len(Call(Req("zz")).t.stages) = 4

(* C6: in every call of _load_quantity that goes to the stages, they are   *)
(* invoked in the order 1 (load_fromfile_quantities), 2 (load_quantities), *)
(* 3 (load_mf_quantities), 4 (load_arithmetic_quantities); every stage but *)
(* the last invoked returned absent, the last one is the first that did    *)
(* not (or is stage 4), and its value is the value of the call.  A call    *)
(* goes to the stages unless the cache or self.variables had the value.    *)
C6_StageOrder ==
    \A req \in Requests : \A d \in Depths :
        LET t == Call(req).t
            st == At(t.stages, d)
            n == Len(st)
        IN  /\ \A i \in 1..n : st[i].k = i
            /\ \A i \in 1..(n - 1) : st[i].res = "absent"
            /\ n > 0 /\ n < 4 => st[n].res # "absent"
            /\ \A c \in Range(At(t.calls, d)) :
                  /\ n = 0 <=> (At(t.hits, d) # <<>> \/ At(t.pre, d) # <<>>)
                  /\ n > 0 /\ st[n].res = "value" => c.val = st[n].val /\ c.how = "return"
                  /\ n > 0 /\ st[n].res = "absent" => c.how = "absent"

\* 'nrj' is resolved by the third stage after the first two returned absent
C6_Witness ==
    LET st == At(Call(Req("nrj")).t.stages, 0)
    IN  /\ Len(st) = 3
        /\ st[3].res = "value"
        /\ Call(Req("nrj")).val = st[3].val

(* C10: in every call of _load_quantity, at the top or nested in a stage,  *)
(* ifluid, jfluid and match_type after the call are those at its entry,   *)
(* whether it returned a value, returned absent or raised.                 *)
C10_ScopedRestore ==
    \A req \in Requests :
        \A c \in Range(Call(req).t.calls) : c.exit = c.entry

\* a stage changed ifluid and its nested call raised: the outer call restores ifluid
C10_Witness ==
    LET cs == Call(Req("nrj")).t.calls
    IN  /\ dd.jfluid = Electrons
        /\ Len(cs) = 2
        /\ cs[1].d = 1 /\ cs[1].how = "raise"
        /\ cs[2].d = 0 /\ cs[2].how = "raise"
        /\ cs[2].inner # cs[2].entry
        /\ cs[2].exit = cs[2].entry

(* ----------------------------- SpecCtx: the context and the cache ------ *)
(* No pool of memmaps; a cache of one entry whose byte budget a sliced     *)
(* array meets and a full array exceeds.  Requests write with the fluids   *)
(* keyed (cache) or with ifluid only (cache_with_nfluid=1), and name every *)
(* field of the context but ifluid.                                        *)
CtxRequests ==
    Resolving({"r", "nrj"}, {None, Some(1)})
      \cup Naming({"r"}, {Scalar(s) : s \in Snaps}, {}, Fluids,
                  {MATCH_PHYSICS, MATCH_AUX}, Slices)

InitCtx ==
    \E do_caching \in BOOLEAN :
        dd = EbysusData(Config(0, TRUE, do_caching, FullBytes \div 2, 1, TRUE)).dd

NextCtx ==
    \/ GetVar(CtxRequests)
    \/ SetSnap({Scalar(s) : s \in Snaps})
    \/ SetFluids({}, Fluids)

SpecCtx == InitCtx /\ [][NextCtx]_vars

\* whether the context an entry was written under agrees with the live one on attribute a
SameAttr(h, a) == h.entry.ctx[a] = h.live[a]

(* C1: every entry the cache returns, to a call from outside or to a       *)
(* nested one, was written for the requested name under the snapshot, the  *)
(* slices, the match_type and the panic flag that are live at the request, *)
(* and under the live ifluid and jfluid as far as the entry is keyed by    *)
(* them.                                                                   *)
C1_HitsAreConsistent ==
    \A req \in CtxRequests :
        \A h \in Range(Call(req).t.hits) :
            /\ \A a \in {"snap", "iix", "iiy", "iiz", "match_type", "panic"} : SameAttr(h, a)
            /\ h.entry.nfluid >= 1 => SameAttr(h, "ifluid")
            /\ h.entry.nfluid >= 2 => SameAttr(h, "jfluid")
            /\ _dict_is_subset(h.entry.metadata, h.live)

\* the cache holds an entry of another snapshot: asked under the live snapshot it
\* is not returned, asked under its own snapshot it is
C1_Witness ==
    /\ dd.cache # <<>>
    /\ dd.cache[1].ctx["snap"] # currSnap(dd)
    /\ LET e == dd.cache[1]
           stale == Call(Req(e.var))
           fresh == Call([Req(e.var) EXCEPT !.snap = Some(Scalar(e.ctx["snap"]))])
       IN  /\ stale.t.hits = <<>>
           /\ fresh.t.hits # <<>>
           /\ fresh.t.hits[1].entry = e

\* the same request again, with the cache checked, in the state the first call left
Again(req) == get_var(Call(req).dd, NoTrace, [req EXCEPT !.check_cache = TRUE], 0)

Writes(req) == req.cache \/ req.cache_with_nfluid # None

(* C2 as stated: when a call that writes to the cache succeeds, the same   *)
(* call again returns an equal value and invokes no producer stage.        *)
C2_SecondResolveIsAHit ==
    \A req \in CtxRequests :
        Writes(req) /\ Call(req).exc = "" =>
            /\ Again(req).exc = ""
            /\ Again(req).val = Call(req).val
            /\ Again(req).t.stages = <<>>

(* C2 as amended: the same holds when caching is on and the value's byte   *)
(* size is within the byte budget of a cache that may hold an entry; the   *)
(* second call is then answered by the cache.                              *)
C2_SecondResolveIsAHitWithinBudget ==
    \A req \in CtxRequests :
        LET first == Call(req)
            second == Again(req)
        IN  /\ Writes(req) /\ first.exc = ""
            /\ caching(dd) /\ dd.cache_max_Narr >= 1
            /\ nbytes(first.val) <= dd.cache_max_bytes
            =>  /\ second.exc = ""
                /\ second.val = first.val
                /\ second.t.stages = <<>>
                /\ Len(second.t.hits) = 1

\* a sliced 'nrj' is computed by the stages and written; the call again is a hit
C2_Witness ==
    LET req == [Req("nrj") EXCEPT !.cache = TRUE]
    IN  /\ dd.iix = "sub"
        /\ Call(req).exc = ""
        /\ Len(Call(req).t.stages) > 0
        /\ Call(req).t.puts # <<>>
        /\ Again(req).t.stages = <<>>
        /\ Again(req).val = Call(req).val

(* ----------------------------- SpecCache: the budgets of the cache ----- *)
(* No pool of memmaps; a cache of MaxNarr arrays and MaxBytes bytes.       *)
(* Requests resolve 'r' and 'tg' and name the snapshot and the slice, so   *)
(* that entries of several keys and of both sizes are written.             *)
MaxNarr == 2
MaxBytes == 3

CacheRequests ==
    {q \in Resolving({"r", "tg"}, {None}) : ~q.panic}
      \cup Naming({"r"}, {Scalar(s) : s \in Snaps}, {}, {}, {}, Slices)

InitCache == dd = EbysusData(Config(0, TRUE, TRUE, MaxBytes, MaxNarr, TRUE)).dd

NextCache ==
    \/ GetVar(CacheRequests)
    \/ SetSnap({Scalar(s) : s \in Snaps})

SpecCache == InitCache /\ [][NextCache]_vars

(* C3: the byte sizes of the entries in the cache sum to at most           *)
(* cache_max_bytes, in every state and after every put of a call.          *)
C3_ByteBound ==
    /\ SumBytes(dd.cache) <= dd.cache_max_bytes
    /\ \A e \in Range(dd.cache) : e.nbytes = nbytes(e.value)
    /\ \A req \in CacheRequests :
          Call(req).t.puts # <<>> =>
              SumBytes(Call(req).dd.cache) <= dd.cache_max_bytes

\* the cache has room for another array but not for the bytes of the one that is
\* put: an entry is evicted for the byte budget alone
C3_Witness ==
    \E req \in CacheRequests :
        LET r == Call(req)
        IN  /\ Len(r.t.puts) = 1
            /\ Len(dd.cache) < dd.cache_max_Narr
            /\ \A e \in Range(dd.cache) : e.var # req.var
            /\ SumBytes(dd.cache) + r.t.puts[1].entry.nbytes > dd.cache_max_bytes
            /\ r.dd.cache = <<r.t.puts[1].entry>>

\* the key of a cache entry, the keys of the entries in order, the keys a call used
Key(e) == [var |-> e.var, metadata |-> e.metadata]
Keys(entries) == [i \in DOMAIN entries |-> Key(entries[i])]
Used(t) == [i \in DOMAIN t.hits |-> Key(t.hits[i].entry)]
             \o [i \in DOMAIN t.puts |-> Key(t.puts[i].entry)]

\* the order of recency after the keys uses were used one after the other
RECURSIVE Recency(_, _)
Recency(order, uses) ==
    IF uses = <<>> THEN order
    ELSE Recency(Append(SelectSeq(order, LAMBDA k : k # Head(uses)), Head(uses)),
                 Tail(uses))

MostRecent(order, n) ==
    IF Len(order) <= n THEN order ELSE SubSeq(order, Len(order) - n + 1, Len(order))

(* C4: the cache holds at most cache_max_Narr entries, and after a call    *)
(* whose entries fit the byte budget together, it holds the                *)
(* cache_max_Narr most recently used keys in the order of their last use,  *)
(* a hit and a put each being a use.                                       *)
C4_CountBoundLRU ==
    /\ Len(dd.cache) <= dd.cache_max_Narr
    /\ \A req \in CacheRequests :
          LET r == Call(req)
              put == SumBytes([i \in DOMAIN r.t.puts |-> r.t.puts[i].entry])
          IN  SumBytes(dd.cache) + put <= dd.cache_max_bytes =>
                  Keys(r.dd.cache) =
                      MostRecent(Recency(Keys(dd.cache), Used(r.t)), dd.cache_max_Narr)

\* the cache is full, its oldest entry is hit by a nested call and a new key is
\* put: the entry that was not used is the one evicted
C4_Witness ==
    \E req \in CacheRequests :
        LET r == Call(req)
        IN  /\ Len(dd.cache) = dd.cache_max_Narr
            /\ Len(r.t.hits) = 1 /\ Len(r.t.puts) = 1
            /\ r.t.hits[1].entry = dd.cache[1]
            /\ Key(r.t.puts[1].entry) \notin Range(Keys(dd.cache))
            /\ r.dd.cache = <<dd.cache[1], r.t.puts[1].entry>>

(* ----------------------------- SpecPool: the pool of memmaps ----------- *)
(* No cache; a pool of PoolN memmaps, under either policy for set_snap and *)
(* with or without fast.  Requests read simple variables of several files  *)
(* and name the snapshot, also an array of snapshots.                      *)
PoolN == 2

PoolRequests ==
    {q \in Resolving({"r", "bx", "tg"}, {None}) :
        ~q.panic /\ q.check_cache /\ ~q.cache}
      \cup Naming({"r"}, SnapVals, {}, {}, {}, {})

InitPool ==
    \E mm_persnap \in BOOLEAN, fast \in BOOLEAN :
        dd = EbysusData(Config(PoolN, mm_persnap, FALSE, MaxBytes, MaxNarr, fast)).dd

NextPool ==
    \/ GetVar(PoolRequests)
    \/ SetSnap(SnapVals)
    \/ SetFluids(Fluids, {})

SpecPool == InitPool /\ [][NextPool]_vars

NoDuplicates(s) == \A i, j \in DOMAIN s : s[i] = s[j] => i = j

\* every acquisition of a mapping in the calls that can be made in this state
Acquisitions ==
    UNION {Range(Call(req).t.acqs) : req \in PoolRequests}
      \cup UNION {Range(set_snap(dd, NoTrace, snap).t.acqs) : snap \in SnapVals}

Changes(req) == req.snap # None /\ req.snap[1] # dd.snap

\* in a trace, whether acquisition i recalls a mapping that the trace did not open
RecallsOld(t, i) ==
    /\ t.acqs[i].recalled
    /\ \A j \in 1..(i - 1) : t.acqs[j].key # t.acqs[i].key

NotRaw(o) == {var \in Vars : ~In(var, simple_vars(o))}

\* the stages of the outermost _load_quantity of the call c
Outer(c) == At(c.t.stages, 0)

\* the error of the call c is not the answer of the raw-file stage
NotOfRawStage(c) ==
    c.exc # "" =>
        \/ Outer(c)[Len(Outer(c))].res = "raise" /\ Len(Outer(c)) > 1
        \/ c.exc = "UnknownVariable" /\ \A i \in DOMAIN Outer(c) : Outer(c)[i].res = "absent"

(* C18: for every name that is not in simple_vars, the raw-file stage      *)
(* returns None with no error and leaves the object, the pool and the      *)
(* record of acquisitions as they were; in get_var the first stage then    *)
(* counts as absent, the second stage is invoked after it, and an error of *)
(* the call, if any, comes from a later stage or from no stage having the  *)
(* variable.                                                               *)
C18_NotRawIsAbsent ==
    \A var \in NotRaw(dd) :
        /\ \A panic \in BOOLEAN :
              load_fromfile_quantities(dd, NoTrace, var, panic) = R(dd, NoTrace, NoneVal, "")
        /\ \A req \in Requests :
              req.var = var /\ Outer(Call(req)) # <<>> =>
                  /\ Outer(Call(req))[1] = [d |-> 0, k |-> 1, var |-> var, res |-> "absent",
                                            val |-> NoneVal]
                  /\ Len(Outer(Call(req))) >= 2
                  /\ Outer(Call(req))[2].k = 2
                  /\ NotOfRawStage(Call(req))

(* with mappings in the pool, 'tg' is computed by a later stage after the  *)
(* raw-file stage returned None, and 'zz', which no stage has, ends as an  *)
(* unknown variable after all four stages                                  *)
C18_Witness ==
    /\ dd.memmaps # <<>>
    /\ {"tg", "zz"} \subseteq NotRaw(dd)
    /\ Call(Req("tg")).exc = "" /\ Call(Req("tg")).val # NoneVal
    /\ Outer(Call([Req("tg") EXCEPT !.check_cache = FALSE]))[1].res = "absent"
    /\ Len(Outer(Call(Req("zz")))) = 4
    /\ Call(Req("zz")).exc = "UnknownVariable"

(* ----------------------------- SpecNames: the special names ------------ *)
(* The name '' and the names of the axes, asked for with every kind of     *)
(* argument, among requests that fill the cache and the pool.              *)
EmptyRequests ==
    Resolving({""}, Opt({0, 2}))
      \cup Naming({""}, {Scalar(s) : s \in Snaps}, {<<MaxSpecies, 1>>}, {}, {MATCH_AUX}, {})

AxisRequests ==
    [var : AXES, snap : Opt({Scalar(MaxSnap)}), ifluid : Opt({<<MaxSpecies, 1>>}),
     jfluid : Opt({<<MaxSpecies, 1>>}), match_type : Opt({MATCH_AUX}), panic : BOOLEAN,
     iix : Opt({"sub"}), check_cache : BOOLEAN, cache : BOOLEAN,
     cache_with_nfluid : Opt({0})]

NameRequests ==
    EmptyRequests \cup AxisRequests
      \cup {q \in Resolving({"r", "tg"}, {None}) : ~q.panic}

InitNames == dd = EbysusData(Config(1, TRUE, TRUE, FullBytes, 1, TRUE)).dd

NextNames ==
    \/ GetVar(NameRequests)
    \/ CreateVardict
    \/ SetSnap({Scalar(s) : s \in Snaps})

SpecNames == InitNames /\ [][NextNames]_vars

\* a call that looked nothing up, had no stage compute a value and wrote nothing
Quiet(c) ==
    /\ c.t.lookups = <<>>
    /\ \A i \in DOMAIN c.t.stages : c.t.stages[i].res # "value"
    /\ c.t.puts = <<>>
    /\ c.dd.cache = dd.cache
    /\ c.dd.memmaps = dd.memmaps

Documents(c, o, req) ==
    /\ c.exc = "" /\ c.val = NoneVal
    /\ c.t.lookups = IF caching(o) /\ req.check_cache
                     THEN << [d |-> 0, var |-> ""] >> ELSE <<>>
    /\ c.t.hits = <<>> /\ c.t.pre = <<>>
    /\ Len(c.t.stages) = 4
    /\ \A i \in 1..4 : /\ c.t.stages[i].k = i
                        /\ c.t.stages[i].var = ""
                        /\ c.t.stages[i].res = "absent"
    /\ c.t.puts = <<>> /\ c.dd.cache = o.cache
    /\ c.t.opens = <<>> /\ c.t.acqs = <<>>
    /\ (req.snap = None \/ req.snap[1] = o.snap) => c.dd.memmaps = o.memmaps
    /\ c.t.helps = IF creating_vardict(o) THEN <<>> ELSE << [d |-> 0] >>

C12_AxesBypassPipeline ==
    \A req \in AxisRequests :
        Call(req) = R(dd, NoTrace, Coordinates(req.var), "")

\* an axis is asked for with a snapshot, a fluid, a slice and a match_type that
\* are not the current ones, while the cache and the pool hold an entry each
C12_Witness ==
    /\ dd.cache # <<>> /\ dd.memmaps # <<>>
    /\ dd.snap = Scalar(1) /\ dd.ifluid = <<1, 1>> /\ dd.iix = "all"
    /\ dd.match_type = MATCH_PHYSICS /\ ~dd.panic
    /\ \E req \in AxisRequests :
          /\ req.snap = Some(Scalar(MaxSnap)) /\ req.ifluid = Some(<<MaxSpecies, 1>>)
          /\ req.iix = Some("sub") /\ req.match_type = Some(MATCH_AUX)
          /\ req.panic /\ req.cache
          /\ Call(req).val = Coordinates(req.var)

(* ----------------------------- SpecFlags: the caching flags ------------ *)
(* Requests with every combination of check_cache, cache and               *)
(* cache_with_nfluid, under fluids and slices that change.  The            *)
(* cache holds one entry of at most half a full array: the value of a      *)
(* sliced request is admitted, that of an unsliced one is not.             *)
FlagRequests ==
    {q \in Resolving({"r", "nrj"}, Opt({0, 1, 2})) : ~q.panic}
      \cup Naming({"r"}, {}, {}, {}, {}, Slices)

InitFlags ==
    \E do_caching \in BOOLEAN :
        dd = EbysusData(Config(0, TRUE, do_caching, FullBytes \div 2, 1, TRUE)).dd

NextFlags ==
    \/ GetVar(FlagRequests)
    \/ SetFluids(Fluids, Fluids)

SpecFlags == InitFlags /\ [][NextFlags]_vars

\* the call neither returned nor looked for a cached entry, and computed its value
Unchecked(c) ==
    /\ At(c.t.hits, 0) = <<>> /\ At(c.t.lookups, 0) = <<>>
    /\ c.exc = "" => (At(c.t.stages, 0) # <<>> \/ At(c.t.pre, 0) # <<>>)

(* C13 as stated: with check_cache=False no cached entry is returned; with *)
(* cache=False and cache_with_nfluid=None a successful call adds no entry; *)
(* with cache_with_nfluid not None the result of a successful call is in   *)
(* the cache afterwards (caching being on for the object).                 *)
C13_FlagsHonoured ==
    \A req \in FlagRequests :
        /\ ~req.check_cache => Unchecked(Call(req))
        /\ (~req.cache /\ req.cache_with_nfluid = None /\ Call(req).exc = "")
              => (Call(req).t.puts = <<>> /\ Range(Call(req).dd.cache) = Range(dd.cache))
        /\ (req.cache_with_nfluid # None /\ Call(req).exc = "" /\ caching(dd))
              => \E e \in Range(Call(req).dd.cache) :
                     e.var = req.var /\ e.value = Call(req).val

\* the call wrote its result, keyed with nfluid fluids, as the most recent entry
WrittenWith(c, req, nfluid) ==
    /\ Len(At(c.t.puts, 0)) = 1
    /\ At(c.t.puts, 0)[1].entry.nfluid = nfluid
    /\ c.dd.cache # <<>>
    /\ c.dd.cache[Len(c.dd.cache)] = At(c.t.puts, 0)[1].entry
    /\ c.dd.cache[Len(c.dd.cache)].var = req.var
    /\ c.dd.cache[Len(c.dd.cache)].value = c.val
    /\ DOMAIN c.dd.cache[Len(c.dd.cache)].metadata \cap {"ifluid", "jfluid"} =
           (IF nfluid >= 1 THEN {"ifluid"} ELSE {}) \cup (IF nfluid >= 2 THEN {"jfluid"} ELSE {})

(* C13 as amended: with check_cache=False no cached entry is returned or   *)
(* looked for, and the value is computed (by the stages, or taken from the *)
(* variables loaded with the snapshot); with cache=False and               *)
(* cache_with_nfluid=None a successful call adds no entry; with            *)
(* cache_with_nfluid not None a successful call that did not return a      *)
(* cached entry writes its result, keyed with that many fluids, when       *)
(* caching is on for the object and the value is within the byte budget,   *)
(* and writes nothing otherwise.                                           *)
C13_FlagsHonouredWithinBudget ==
    \A req \in FlagRequests :
        /\ ~req.check_cache => Unchecked(Call(req))
        /\ (~req.cache /\ req.cache_with_nfluid = None /\ Call(req).exc = "")
              => (Call(req).t.puts = <<>> /\ Range(Call(req).dd.cache) = Range(dd.cache))
        /\ (req.cache_with_nfluid # None /\ Call(req).exc = ""
                /\ At(Call(req).t.hits, 0) = <<>>)
              => IF caching(dd) /\ nbytes(Call(req).val) <= dd.cache_max_bytes
                 THEN WrittenWith(Call(req), req, req.cache_with_nfluid[1])
                 ELSE Range(Call(req).dd.cache) = Range(dd.cache)

(* a valid entry of 'r' is in the cache and get_var('r', check_cache=False) *)
(* runs the stages; an entry is written with one fluid                     *)
C13_Witness ==
    /\ caching(dd) /\ cache_lookup(dd, "r") > 0
    /\ At(Call([Req("r") EXCEPT !.check_cache = FALSE]).t.stages, 0) # <<>>
    /\ Call(Req("r")).t.hits # <<>>
    /\ WrittenWith(Call([Req("nrj") EXCEPT !.cache_with_nfluid = Some(1)]),
                   Req("nrj"), 1)

\* if stored has field k then the live context has it (present) with the value v
Agrees(stored, k, present, v) == k \in DOMAIN stored => (present /\ stored[k] = v)

\* every non-fluid field of stored has the value of the live context of o
NonFluidsAgree(o, stored) ==
    /\ Agrees(stored, "snap", TRUE, currSnap(o))
    /\ Agrees(stored, "snaps", o.snap.nd > 0, o.snap.v)
    /\ Agrees(stored, "iix", TRUE, o.iix)
    /\ Agrees(stored, "iiy", TRUE, o.iiy)
    /\ Agrees(stored, "iiz", TRUE, o.iiz)
    /\ Agrees(stored, "match_type", TRUE, o.match_type)
    /\ Agrees(stored, "panic", TRUE, o.panic)

\* the metadata of an entry without its fluids
NonFluid(metadata) ==
    [k \in DOMAIN metadata \ {"ifluid", "jfluid"} |-> metadata[k]]

\* whether the fluids an entry is keyed with are the fluids fi, fj
SlotsMatch(e, fi, fj) ==
    CASE e.nfluid = 0 -> TRUE
      [] e.nfluid = 1 -> fi = e.ctx.ifluid
      [] e.nfluid = 2 -> fi = e.ctx.ifluid /\ fj = e.ctx.jfluid

\* get_var(var, ifluid=fi, jfluid=fj)
Under(var, fi, fj) == [Req(var) EXCEPT !.ifluid = Some(fi), !.jfluid = Some(fj)]

(* C14: an entry whose fields other than the fluids (the snapshot, the     *)
(* array of snapshots when it has one, the slices, match_type and the      *)
(* panic flag) equal the live ones is                                      *)
(* valid under the fluids (fi, fj) exactly when the fluids it is keyed     *)
(* with match: always with 0 slots, when fi is the stored ifluid with 1    *)
(* slot, when fi and fj are the stored ifluid and jfluid with 2 slots.  A  *)
(* request for a name under (fi, fj) is a hit exactly when the cache holds *)
(* such an entry of the name, and the entry returned is such an entry.     *)
C14_FluidSlots ==
    \A fi \in Fluids, fj \in Fluids :
        /\ \A e \in Range(dd.cache) :
              /\ DOMAIN e.metadata \cap {"ifluid", "jfluid"} =
                    (IF e.nfluid >= 1 THEN {"ifluid"} ELSE {})
                       \cup (IF e.nfluid >= 2 THEN {"jfluid"} ELSE {})
              /\ NonFluidsAgree([dd EXCEPT !.panic = FALSE], NonFluid(e.metadata))
                    => (_metadata_is_consistent(
                            set_fluids([dd EXCEPT !.panic = FALSE], Some(fi), Some(fj)),
                            e.metadata)
                          <=> SlotsMatch(e, fi, fj))
        /\ \A var \in {"r", "nrj"} :
              /\ At(Call(Under(var, fi, fj)).t.hits, 0) # <<>>
                    <=> \E e \in Range(dd.cache) :
                            /\ e.var = var
                            /\ NonFluidsAgree([dd EXCEPT !.panic = FALSE], NonFluid(e.metadata))
                            /\ SlotsMatch(e, fi, fj)
              /\ \A i \in DOMAIN At(Call(Under(var, fi, fj)).t.hits, 0) :
                    /\ SlotsMatch(At(Call(Under(var, fi, fj)).t.hits, 0)[i].entry, fi, fj)
                    /\ Call(Under(var, fi, fj)).val =
                          At(Call(Under(var, fi, fj)).t.hits, 0)[i].entry.value

(* an entry keyed with no fluid is hit under other fluids than those it    *)
(* was written under; an entry keyed with one is hit under another jfluid  *)
(* and missed under another ifluid                                         *)
C14_Witness ==
    \E e \in Range(dd.cache), f \in Fluids :
        /\ NonFluidsAgree([dd EXCEPT !.panic = FALSE], NonFluid(e.metadata))
        /\ f # e.ctx.ifluid /\ f # e.ctx.jfluid
        /\ \/ /\ e.nfluid = 0
              /\ Call(Under(e.var, f, f)).t.hits # <<>>
           \/ /\ e.nfluid = 1
              /\ At(Call(Under(e.var, e.ctx.ifluid, f)).t.hits, 0) # <<>>
              /\ At(Call(Under(e.var, f, e.ctx.jfluid)).t.hits, 0) = <<>>

(* ----------------------------- SpecMatch: the two matches -------------- *)
(* The live context takes every value: fluids, one snapshot or an array of *)
(* them, slice, match_type and panic flag.  It is compared with stored     *)
(* contexts in which every field is absent or has one of its values; a     *)
(* fluid can also be stored as None (unset).                               *)
MatchRequests ==
    {q \in Resolving({"r"}, {None}) : q.check_cache /\ ~q.cache}
      \cup Naming({"r"}, {}, {}, {}, {MATCH_PHYSICS, MATCH_AUX}, Slices)

InitMatch == dd = EbysusData(Config(0, TRUE, FALSE, FullBytes, 1, TRUE)).dd

NextMatch ==
    \/ GetVar(MatchRequests)
    \/ SetSnap(SnapVals)
    \/ SetFluids(AllFluids, Fluids)

SpecMatch == InitMatch /\ [][NextMatch]_vars

StoredRecords ==
    [ifluid : Opt(Fluids \cup {None}), jfluid : Opt({<<1, 1>>, None}),
     snap : Opt(Snaps), snaps : Opt({a.v : a \in SnapArrays}),
     iix : Opt(Slices), iiy : {Some("all")}, iiz : {Some("all")},
     match_type : Opt({MATCH_PHYSICS}), panic : Opt({FALSE})]

\* the dict of the fields that are present in rec
Partial(rec) == [k \in {f \in DOMAIN rec : rec[f] # None} |-> rec[k][1]]

\* the stored context of the example: the snapshot and ifluid of o
SnapAndFluid(o) ==
    [k \in {"snap", "ifluid"} |-> IF k = "snap" THEN currSnap(o) ELSE o.ifluid]

\* _metadata_is_consistent(stored) says whether every field of stored agrees
SubsetOfLive(o, stored) ==
    _metadata_is_consistent(o, stored)
      <=> /\ Agrees(stored, "ifluid", TRUE, o.ifluid)
          /\ Agrees(stored, "jfluid", TRUE, o.jfluid)
          /\ NonFluidsAgree(o, stored)

(* C15: _metadata_is_consistent(stored) is true exactly when every field   *)
(* that stored has is a field of the live context with an equal value (an  *)
(* array of snapshots equal element by element); fields of the live        *)
(* context that stored lacks are ignored.  A stored {snap, ifluid} matches *)
(* the live context with that snapshot and fluid, which also has slices,   *)
(* and does not match the live context of another snapshot.                *)
C15_SubsetMatch ==
    /\ \A rec \in StoredRecords : SubsetOfLive(dd, Partial(rec))
    /\ _metadata_is_consistent(dd, SnapAndFluid(dd))
    /\ \A s \in Snaps \ {currSnap(dd)} :
          ~_metadata_is_consistent([dd EXCEPT !.snap = Scalar(s)], SnapAndFluid(dd))

(* the live snapshot is an array and the slice is not the default: a       *)
(* stored context with the array and the slice matches, one with another   *)
(* slice does not                                                          *)
C15_Witness ==
    /\ dd.snap.nd > 0 /\ dd.iix = "sub" /\ dd.ifluid # <<1, 1>>
    /\ \E rec \in StoredRecords :
          /\ DOMAIN Partial(rec) = {"snaps", "iix", "iiy", "iiz", "ifluid"}
          /\ _metadata_is_consistent(dd, Partial(rec))
    /\ \E rec \in StoredRecords :
          /\ DOMAIN Partial(rec) = {"snaps", "iix", "iiy", "iiz", "ifluid"}
          /\ Partial(rec).snaps = dd.snap.v /\ Partial(rec).ifluid = dd.ifluid
          /\ ~_metadata_is_consistent(dd, Partial(rec))

\* the non-fluid fields of the live context of o
NonFluidFields(o) ==
    {"snap", "iix", "iiy", "iiz", "match_type", "panic"}
        \cup (IF o.snap.nd > 0 THEN {"snaps"} ELSE {})

\* _metadata_matches(stored) says whether (1) and (2) hold of stored
MatchesLive(o, stored) ==
    _metadata_matches(o, stored)
      <=> /\ \A f \in {"ifluid", "jfluid"} :
                (f \in DOMAIN stored /\ stored[f] # None)
                    => (stored[f][1] = o[f][1] /\ stored[f][2] = o[f][2])
          /\ DOMAIN stored \ {"ifluid", "jfluid"} = NonFluidFields(o)
          /\ NonFluidsAgree(o, stored)

(* C16: _metadata_matches(stored) is true exactly when (1) each of ifluid  *)
(* and jfluid that stored has, and has not as None, equals the live one by *)
(* species and level, and (2) the fields of stored other than the fluids   *)
(* are those of the live context, with equal values.  A stored context     *)
(* that lacks a non-fluid field does not match, though it is a subset.     *)
C16_FluidAgnosticMatch ==
    /\ \A rec \in StoredRecords : MatchesLive(dd, Partial(rec))
    /\ \A k \in NonFluidFields(dd) :
          /\ _metadata_is_consistent(dd, [j \in DOMAIN _metadata(dd, 2) \ {k} |->
                                              _metadata(dd, 2)[j]])
          /\ ~_metadata_matches(dd, [j \in DOMAIN _metadata(dd, 2) \ {k} |->
                                         _metadata(dd, 2)[j]])

(* a stored context without jfluid and with ifluid None matches a live     *)
(* context whose fluids are not the first ones; the same stored context    *)
(* with another ifluid does not                                            *)
C16_Witness ==
    /\ dd.ifluid # <<1, 1>> /\ dd.iix = "sub"
    /\ \E rec \in StoredRecords :
          /\ rec.jfluid = None /\ rec.ifluid = Some(None)
          /\ _metadata_matches(dd, Partial(rec))
          /\ ~_metadata_is_consistent(dd, Partial(rec))
          /\ ~_metadata_matches(dd, Partial([rec EXCEPT !.ifluid = Some(<<1, 1>>)]))
          /\ _metadata_matches(dd, Partial([rec EXCEPT !.ifluid = Some(dd.ifluid)]))

(* ----------------------------- SpecFiles: the raw-file stage ----------- *)
(* Raw and derived variables are read, from a pool of one mapping and with *)
(* the cache on, while one file at a time of those the object reads cannot *)
(* be opened: it is missing, or its permissions deny reading.              *)
MaxUnreadable == 1
OpenErrors == {"FileNotFoundError", "PermissionError"}

FileRequests ==
    {q \in Resolving({"r", "bx", "tg", "mm_nu"}, {None}) :
        /\ q.check_cache
        /\ q.panic => q.var = "r" /\ ~q.cache
        /\ q.cache => q.var = "tg"}
      \cup Naming({"mm_nu"}, {Scalar(s) : s \in Snaps}, {}, {<<1, 1>>, <<2, 1>>}, {}, {})

\* the files the object reads for 'r' and for 'bx' as it is
FilesNow(o) ==
    {_get_simple_var_file_info(o, var, FALSE).filename[1] : var \in {"r", "bx"}}

InitFiles == dd = EbysusData(Config(1, TRUE, TRUE, FullBytes, 1, TRUE)).dd

\* a file of the simulation is removed or made unreadable
Unlink ==
    \E f \in FilesNow(dd), e \in OpenErrors :
        /\ Cardinality({u \in dd.unreadable : u.file # f}) < MaxUnreadable
        /\ dd' = [dd EXCEPT !.unreadable =
                      {u \in @ : u.file # f} \cup {[file |-> f, err |-> e]}]

\* the files of the simulation are all readable again
Restore == dd' = [dd EXCEPT !.unreadable = {}]

NextFiles ==
    \/ GetVar(FileRequests)
    \/ Unlink
    \/ Restore

SpecFiles == InitFiles /\ [][NextFiles]_vars

\* the pairs (species, level) of the simulation
Pairs == {SL \in (1..mf_nspecies) \X (1..MaxLevel) : SL[2] <= nlevel(SL[1])}

\* the place of a pair in species-major order, every species having MaxLevel levels
Ordinal(SL) == (SL[1] - 1) * MaxLevel + (SL[2] - 1)

\* the bytes of one (nx, ny, nzb) array
PerLevelBytes == nx * ny * nzb * dsize

\* the offset of var, the idx-th of varsmm, under jfluid SL is the packed one
PackedAt(info, idx, SL) ==
    /\ info.exc = ""
    /\ info.offset = PerLevelBytes * (idx * mf_total_nlevel + Ordinal(SL))
    /\ info.shape = <<nx, ny, nzb>>
    /\ info.filename[1].grp = "mm"

(* C17: for a variable of varsmm at index idx, under every jfluid, the     *)
(* offset is nx*ny*nzb*itemsize*(idx*mf_total_nlevel + jdx) and the shape  *)
(* (nx, ny, nzb), jdx being the number of pairs before jfluid in           *)
(* species-major order; the mapping acquired by get_var has that offset.   *)
(* Under jfluid (2,1) the offset is nlevel(1) per-level sizes above the    *)
(* base of the group: 2 of them when the species have 2 levels.            *)
C17_PackedOffset ==
    /\ \A SL \in Pairs, idx \in 0..(Len(varsmm) - 1) :
          /\ PackedAt(_get_simple_var_file_info([dd EXCEPT !.jfluid = SL],
                                                 varsmm[idx + 1], FALSE), idx, SL)
          /\ jdx_of([dd EXCEPT !.jfluid = SL]) = Cardinality({P \in Pairs : Ordinal(P) < Ordinal(SL)})
          /\ LET c == Call([Req(varsmm[idx + 1]) EXCEPT !.jfluid = Some(SL),
                                                         !.check_cache = FALSE])
             IN  c.t.fails = <<>> =>
                   /\ Len(c.t.acqs) = 1
                   /\ c.t.acqs[1].key.offset =
                         PerLevelBytes * (idx * mf_total_nlevel + Ordinal(SL))
                   /\ c.t.acqs[1].key.shape = <<nx, ny, nzb>>
    /\ \A idx \in 0..(Len(varsmm) - 1) :
          /\ jdx_of([dd EXCEPT !.jfluid = <<2, 1>>]) = nlevel(1)
          /\ (mf_nspecies = 2 /\ MaxLevel = 2) =>
                _get_simple_var_file_info([dd EXCEPT !.jfluid = <<2, 1>>],
                                          varsmm[idx + 1], FALSE).offset
                  = PerLevelBytes * idx * mf_total_nlevel + 2 * PerLevelBytes

(* the second variable of varsmm is mapped under jfluid (2,1): the mapping *)
(* in the pool is at the base of the variable plus nlevel(1) arrays        *)
C17_Witness ==
    /\ dd.jfluid = <<2, 1>>
    /\ dd.memmaps # <<>>
    /\ dd.memmaps[1].filename.grp = "mm"
    /\ dd.memmaps[1].offset = PerLevelBytes * (mf_total_nlevel + nlevel(1))
    /\ dd.memmaps[1].offset # PerLevelBytes * mf_total_nlevel

\* the variables of varsmm, by index, under the jfluids of the simulation
Regions == (0..(Len(varsmm) - 1)) \X Pairs

\* where the array of region rg = <<idx, jfluid>> begins in the file
RegionOffset(o, rg) ==
    _get_simple_var_file_info([o EXCEPT !.jfluid = rg[2]], varsmm[rg[1] + 1], FALSE).offset

\* the request that reads region rg from the file
RegionReq(rg) ==
    [Req(varsmm[rg[1] + 1]) EXCEPT !.jfluid = Some(rg[2]), !.check_cache = FALSE]

\* the byte ranges [a, a + PerLevelBytes) and [b, b + PerLevelBytes) do not meet
Disjoint(a, b) == a + PerLevelBytes <= b \/ b + PerLevelBytes <= a

\* offs is a set of <<region, offset>>: each region inside the block of its
\* variable, no two regions meeting
Packed(offs) ==
    /\ \A p \in offs :
          /\ p[1][1] * mf_total_nlevel * PerLevelBytes <= p[2]
          /\ p[2] + PerLevelBytes <= (p[1][1] + 1) * mf_total_nlevel * PerLevelBytes
    /\ \A p, q \in offs : p[1] # q[1] => Disjoint(p[2], q[2])

\* jdxs is a set of <<jfluid, jdx>>: the ordinals are in 0..mf_total_nlevel-1
\* and distinct
Enumerates(jdxs) ==
    /\ \A p \in jdxs : p[2] \in 0..(mf_total_nlevel - 1)
    /\ \A p, q \in jdxs : p[1] # q[1] => p[2] # q[2]

(* C30: for every jfluid (species in 1..mf_nspecies, level in 1..nlevel of *)
(* the species) jdx is in 0..mf_total_nlevel-1 and distinct jfluids have   *)
(* distinct jdx; the byte ranges [offset, offset + nx*ny*nzb*itemsize) of  *)
(* distinct (index in varsmm, jfluid) pairs are pairwise disjoint, each is *)
(* inside the block of mf_total_nlevel arrays of its variable, and the     *)
(* mapping get_var acquires for a pair begins at the offset of the pair.   *)
C30_RegionsDisjoint ==
    /\ Enumerates({<<SL, jdx_of([dd EXCEPT !.jfluid = SL])>> : SL \in Pairs})
    /\ Packed({<<rg, RegionOffset(dd, rg)>> : rg \in Regions})
    /\ \A rg \in Regions :
          LET c == Call(RegionReq(rg))
          IN  c.t.fails = <<>> =>
                /\ Len(c.t.acqs) = 1
                /\ c.t.acqs[1].key.offset = RegionOffset(dd, rg)

(* the second variable of varsmm is mapped under jfluid (1,1), at the base *)
(* of its block; the array of the next level and that of jfluid (2,1)      *)
(* begin where it ends or after, and the block of the first variable ends  *)
(* where it begins                                                         *)
C30_Witness ==
    /\ dd.jfluid = <<1, 1>>
    /\ dd.memmaps # <<>>
    /\ dd.memmaps[1].filename.grp = "mm"
    /\ dd.memmaps[1].offset = RegionOffset(dd, <<1, <<1, 1>>>>)
    /\ dd.memmaps[1].offset = mf_total_nlevel * PerLevelBytes
    /\ dd.memmaps[1].offset + PerLevelBytes = RegionOffset(dd, <<1, <<1, 2>>>>)
    /\ dd.memmaps[1].offset + PerLevelBytes <= RegionOffset(dd, <<1, <<2, 1>>>>)
    /\ RegionOffset(dd, <<0, <<MaxSpecies, MaxLevel>>>>) + PerLevelBytes = dd.memmaps[1].offset

(* C19: for every raw variable, under the fluids and the snapshot as they  *)
(* are, the descriptor of the panic file is computed without an error, its *)
(* name ends with '.panic' ('.aux.panic' for a variable of the aux files)  *)
(* and has no snapshot number, and its offset and shape are those of the   *)
(* descriptor computed without panic.                                      *)
C19_PanicDescriptor ==
    \A i \in DOMAIN simple_vars(dd) :
        _get_simple_var_file_info(dd, simple_vars(dd)[i], FALSE).exc = "" =>
            /\ _get_simple_var_file_info(dd, simple_vars(dd)[i], TRUE).exc = ""
            /\ _get_simple_var_file_info(dd, simple_vars(dd)[i], TRUE).filename[1].suffix
                  \in {".panic", ".aux.panic"}
            /\ _get_simple_var_file_info(dd, simple_vars(dd)[i], TRUE).filename[1].snapstr
                  = None
            /\ _get_simple_var_file_info(dd, simple_vars(dd)[i], TRUE).offset
                  = _get_simple_var_file_info(dd, simple_vars(dd)[i], FALSE).offset
            /\ _get_simple_var_file_info(dd, simple_vars(dd)[i], TRUE).shape
                  = _get_simple_var_file_info(dd, simple_vars(dd)[i], FALSE).shape

\* every stage that ended after the file could not be opened ended with the error
Propagated(c) ==
    /\ Len(c.t.fails) = 1
    /\ c.exc = c.t.fails[1].err /\ c.exc \in OpenErrors
    /\ c.val = NoneVal
    /\ c.t.stages # <<>>
    /\ \E i \in DOMAIN c.t.stages :
          /\ c.t.stages[i].k = 1 /\ c.t.stages[i].res = "raise"
          /\ \A j \in DOMAIN c.t.stages : (j < i) <=> c.t.stages[j].res = "absent"
    /\ c.t.stages[Len(c.t.stages)].d = 0
    /\ c.t.opens = <<>> /\ c.t.puts = <<>>

\* the request is answered from the object o whenever its file can be opened
Answered(o, req) ==
    get_var(o, NoTrace, req, 0).t.fails = <<>>
        => /\ get_var(o, NoTrace, req, 0).exc = ""
           /\ get_var(o, NoTrace, req, 0).val # NoneVal

(* C20: when a file cannot be opened while the raw-file stage acquires a   *)
(* mapping, the error of the open is the error of get_var: the stage and   *)
(* the stages above it end with it, no later stage is tried and the open   *)
(* is not tried again; the pool and the cache hold no entry they did not   *)
(* hold before; and every request made next whose file can be opened       *)
(* returns a value.                                                        *)
C20_OpenFailurePropagates ==
    \A req \in FileRequests :
        Call(req).t.fails # <<>> =>
            /\ Propagated(Call(req))
            /\ Range(Call(req).dd.memmaps) \subseteq Range(dd.memmaps)
            /\ Range(Call(req).dd.cache) \subseteq Range(dd.cache)
            /\ \A next \in FileRequests : ~next.panic => Answered(Call(req).dd, next)

(* the file of 'r' cannot be read for its permissions while the pool holds *)
(* the mapping of another variable: 'r' and 'tg', which is computed from   *)
(* 'r', fail with PermissionError and 'bx' is read after that              *)
C20_Witness ==
    /\ dd.memmaps # <<>> /\ dd.unreadable # {}
    /\ Call(Req("r")).exc = "PermissionError"
    /\ Call([Req("tg") EXCEPT !.cache = TRUE]).exc = "PermissionError"
    /\ Len(Call(Req("tg")).t.stages) = 3
    /\ get_var(Call(Req("r")).dd, NoTrace, Req("bx"), 0).exc = ""
    /\ get_var(Call(Req("r")).dd, NoTrace, Req("bx"), 0).t.opens # <<>>

(* ----------------------------- SpecNoPool: N_memmap = 0 ---------------- *)
(* No cache and no pool of memmaps, under either policy for set_snap and   *)
(* with or without fast; the requests and the calls are those of SpecPool. *)
InitNoPool ==
    \E mm_persnap \in BOOLEAN, fast \in BOOLEAN :
        dd = EbysusData(Config(0, mm_persnap, FALSE, MaxBytes, MaxNarr, fast)).dd

NextNoPool ==
    \/ GetVar(PoolRequests)
    \/ SetSnap(SnapVals)
    \/ SetFluids(Fluids, Fluids)

SpecNoPool == InitNoPool /\ [][NextNoPool]_vars

\* every mapping the trace t acquired was opened, and no pool was there for it
AllOpened(t) ==
    /\ Len(t.opens) = Len(t.acqs)
    /\ \A i \in DOMAIN t.acqs :
          /\ ~t.acqs[i].recalled
          /\ t.acqs[i].before = <<>> /\ t.acqs[i].after = <<>>
          /\ t.opens[i] = t.acqs[i].key

(* C21: with N_memmap = 0 the pool holds no mapping in any state; every    *)
(* mapping a call of get_var or of set_snap acquires is opened; the same   *)
(* request made twice in a row opens the same files twice; and set_snap    *)
(* finds nothing in the pool and leaves nothing in it.                     *)
C21_NoPooling ==
    /\ dd.N_memmap = 0
    /\ dd.memmaps = <<>>
    /\ \A req \in PoolRequests :
          /\ AllOpened(Call(req).t)
          /\ Call(req).dd.memmaps = <<>>
          /\ req.snap = None =>
                get_var(Call(req).dd, NoTrace, req, 0).t.opens = Call(req).t.opens
    /\ \A snap \in SnapVals :
          /\ AllOpened(set_snap(dd, NoTrace, snap).t)
          /\ set_snap(dd, NoTrace, snap).dd.memmaps = <<>>

(* 'r' was read when the object was made and is read again, twice: each of *)
(* the two reads opens the file of 'r', with the same key                  *)
C21_Witness ==
    /\ dd.fast
    /\ Len(Call([Req("r") EXCEPT !.check_cache = FALSE]).t.opens) = 1
    /\ get_var(Call(Req("bx")).dd, NoTrace, Req("bx"), 0).t.opens # <<>>
    /\ get_var(Call(Req("bx")).dd, NoTrace, Req("bx"), 0).t.opens = Call(Req("bx")).t.opens
    /\ dd.snap # Scalar(FirstSnap)

(* ----------------------------- SpecInit: the preloaded variables ------- *)
(* The object is made with or without fast, without a pool of memmaps and  *)
(* without a cache; the maximal length of self._hidden_errors is set on    *)
(* it.  The fluid is set to a species, or to the electrons, for which the  *)
(* files have no 'r'; files become unreadable; the snapshot is set, and    *)
(* _init_vars and _init_vars_get are also called on their own.             *)
MaxHidden == 5

InitRequests ==
    {q \in Resolving({"r", "e"}, {None}) : ~q.panic /\ q.check_cache /\ ~q.cache}
      \cup Naming({"r"}, {Scalar(MaxSnap)}, {}, {}, {}, {})

\* the arguments the object o was made with, the files being as they are now
ConfigOf(o) ==
    [Config(o.N_memmap, o.mm_persnap, o.do_caching, o.cache_max_bytes,
            o.cache_max_Narr, o.fast) EXCEPT !.unreadable = o.unreadable]

\* a new object is made of the same simulation; nothing is made if __init__ raises
Constructed(o) ==
    IF EbysusData(ConfigOf(o)).exc # "" THEN o
    ELSE [EbysusData(ConfigOf(o)).dd EXCEPT !._hidden_errors_max_len = MaxHidden]

InitInit ==
    \E fast \in BOOLEAN :
        dd = Constructed([Config(0, TRUE, FALSE, FullBytes, 1, fast)
                              EXCEPT !.cache_max_bytes = FullBytes, !.cache_max_Narr = 1])

\* a file of 'r' or of 'bx' is removed or made unreadable
UnlinkOne ==
    \E var \in {"r", "bx"}, e \in OpenErrors :
        /\ dd.unreadable = {}
        /\ _get_simple_var_file_info(dd, var, FALSE).exc = ""
        /\ dd' = [dd EXCEPT !.unreadable =
                      {[file |-> _get_simple_var_file_info(dd, var, FALSE).filename[1],
                        err |-> e]}]

\* a call of dd._init_vars_get() from outside
InitVarsGet == dd' = _init_vars_get(dd, NoTrace, FALSE).dd

\* a call of dd._init_vars() from outside
InitVars == dd' = _init_vars(dd, NoTrace, FALSE).dd

\* dd = EbysusData(...) once more
Construct == dd' = Constructed(dd)

NextInit ==
    \/ GetVar(InitRequests)
    \/ SetSnap({Scalar(s) : s \in Snaps})
    \/ SetFluids({<<1, 1>>, Electrons}, {})
    \/ UnlinkOne
    \/ Restore
    \/ InitVarsGet
    \/ InitVars
    \/ Construct

SpecInit == InitInit /\ [][NextInit]_vars

\* the variables _init_vars_get reads
VarList(o) == IF o.fast THEN <<"r">> ELSE simple_vars(o)

\* the error of reading var from the object o as it is ("" if it is read)
Outcome(o, var) == _get_simple_var(o, NoTrace, var, FALSE).exc

\* whether the error exc is one that _init_vars_get hides for the object o
Hidden(o, exc) == exc = "ValueError" /\ (o.ifluid[1] < 0 \/ o.ifluid[2] < 0)

\* the loop that ended with c went through all of VarList(o): each variable was
\* read, or its error was hidden or warned of, as the kind of error decides
Continued(o, c) ==
    /\ c.exc = ""
    /\ Len(c.t.acqs) + Len(c.t.hides) + Len(c.t.warns) = Len(VarList(o))
    /\ \A i \in DOMAIN c.t.hides : Hidden(o, c.t.hides[i][2])
    /\ \A i \in DOMAIN c.t.warns : c.t.warns[i][2] # "" /\ ~Hidden(o, c.t.warns[i][2])
    /\ Len(c.t.fails) = Cardinality({i \in DOMAIN c.t.warns : c.t.warns[i][2] \in OpenErrors})
    /\ \A var \in Range(VarList(o)) :
          var \in DOMAIN c.dd.variables
              <=> var \in DOMAIN o.variables
                    \/ (\A e \in Range(c.t.hides \o c.t.warns) : e[1] # var)
    /\ (Outcome(o, "r") # "") =>
          IF Hidden(o, Outcome(o, "r"))
          THEN c.t.hides[1] = <<"r", Outcome(o, "r")>>
          ELSE c.t.warns[1] = <<"r", Outcome(o, "r")>>

\* the call that ended with c raised the error of 'r' and did nothing else
Aborted(o, c) ==
    /\ c.exc = Outcome(o, "r")
    /\ c.dd.variables = o.variables
    /\ c.dd._hidden_errors = o._hidden_errors
    /\ c.t.hides = <<>> /\ c.t.warns = <<>> /\ c.t.acqs = <<>>

(* C22: _init_vars_get(firstime=True) raises the error of reading 'r', the *)
(* first variable, and reads nothing else, and __init__ raises it when the *)
(* file of 'r' cannot be opened; with firstime=False, and for the          *)
(* variables after 'r', no error is raised: a ValueError under a negative  *)
(* species or level is added to self._hidden_errors, every other error is  *)
(* warned of, and all variables of the list are tried.  set_snap and       *)
(* _init_vars, which call it with firstime=False, raise nothing.           *)
C22_InitVarsGetErrors ==
    /\ IF Outcome(dd, "r") # ""
       THEN Aborted(dd, _init_vars_get(dd, NoTrace, TRUE))
       ELSE Continued(dd, _init_vars_get(dd, NoTrace, TRUE))
    /\ Continued(dd, _init_vars_get(dd, NoTrace, FALSE))
    /\ _init_vars(dd, NoTrace, FALSE).exc = ""
    /\ \A snap \in {Scalar(s) : s \in Snaps} : set_snap(dd, NoTrace, snap).exc = ""
    /\ EbysusData(ConfigOf(dd)).exc # "" =>
          /\ EbysusData(ConfigOf(dd)).t.fails
                = <<[file |-> EbysusData(ConfigOf(dd)).t.fails[1].file,
                     err |-> EbysusData(ConfigOf(dd)).exc]>>
          /\ EbysusData(ConfigOf(dd)).t.fails[1].file.grp = "mfr"
    /\ EbysusData(ConfigOf(dd)).exc = "" =>
          \A i \in DOMAIN EbysusData(ConfigOf(dd)).t.fails :
              EbysusData(ConfigOf(dd)).t.fails[i].file.grp # "mfr"

(* all simple variables are read under the electrons while the file of     *)
(* 'bx' cannot be opened: the first time the ValueError of 'r' is raised;  *)
(* otherwise it is hidden, the error of 'bx' is warned of, and 'e' is read *)
C22_Witness ==
    /\ ~dd.fast /\ dd.ifluid = Electrons
    /\ _init_vars_get(dd, NoTrace, TRUE).exc = "ValueError"
    /\ _init_vars_get(dd, NoTrace, FALSE).exc = ""
    /\ _init_vars_get(dd, NoTrace, FALSE).t.hides[1] = <<"r", "ValueError">>
    /\ \E i \in DOMAIN _init_vars_get(dd, NoTrace, FALSE).t.warns :
          _init_vars_get(dd, NoTrace, FALSE).t.warns[i] = <<"bx", "PermissionError">>
    /\ "e" \in DOMAIN _init_vars_get(dd, NoTrace, FALSE).dd.variables

\* self._hidden_errors after the call that ended with c holds the most recent
\* of the errors it held and the errors the call hid
KeepsMostRecent(o, c) ==
    /\ c.dd._hidden_errors
          = MostRecent(o._hidden_errors \o c.t.hides, o._hidden_errors_max_len)
    /\ Len(c.dd._hidden_errors) <= o._hidden_errors_max_len
    /\ c.dd._hidden_errors_max_len = o._hidden_errors_max_len

(* C23: self._hidden_errors holds at most _hidden_errors_max_len errors    *)
(* (100 on an object as __init__ makes it); after every call it holds, in  *)
(* the order of arrival, the errors it held followed by the errors the     *)
(* call hid, less the oldest ones beyond the maximal length.               *)
C23_HiddenErrorsBounded ==
    /\ Len(dd._hidden_errors) <= dd._hidden_errors_max_len
    /\ EbysusData(ConfigOf(dd)).exc = "" =>
          /\ EbysusData(ConfigOf(dd)).dd._hidden_errors_max_len = 100
          /\ EbysusData(ConfigOf(dd)).dd._hidden_errors = <<>>
    /\ KeepsMostRecent(dd, _init_vars_get(dd, NoTrace, FALSE))
    /\ KeepsMostRecent(dd, _init_vars(dd, NoTrace, FALSE))
    /\ \A snap \in {Scalar(s) : s \in Snaps} : KeepsMostRecent(dd, set_snap(dd, NoTrace, snap))
    /\ \A req \in InitRequests : KeepsMostRecent(dd, Call(req))

(* the buffer is full and four more errors are hidden: the four oldest go  *)
C23_Witness ==
    /\ Len(dd._hidden_errors) = dd._hidden_errors_max_len
    /\ Len(_init_vars_get(dd, NoTrace, FALSE).t.hides) = 4
    /\ dd._hidden_errors[1] # dd._hidden_errors[2]
    /\ _init_vars_get(dd, NoTrace, FALSE).dd._hidden_errors
          = <<dd._hidden_errors[Len(dd._hidden_errors)]>>
              \o _init_vars_get(dd, NoTrace, FALSE).t.hides

\* the file and the offset of var under the snapshot and the fluids of metadata
InfoUnder(o, var, metadata) ==
    _get_simple_var_file_info([o EXCEPT !.snap = Scalar(metadata.snap), !.snapInd = 0,
                                        !.ifluid = metadata.ifluid,
                                        !.jfluid = metadata.jfluid], var, FALSE)

\* the value val of var was read under the snapshot and the fluids of metadata
ReadUnder(o, var, val, metadata) ==
    /\ InfoUnder(o, var, metadata).exc = ""
    /\ val.reads[1][1] = InfoUnder(o, var, metadata).filename[1]
    /\ val.reads[1][2] = InfoUnder(o, var, metadata).offset

(* C26: every value in self.variables was read under the snapshot and the  *)
(* fluids that self.variables['metadata'] records, and a value that        *)
(* _load_quantity returns from self.variables was read under the snapshot  *)
(* and the fluids of the object as get_var installed them.                 *)
C26_PreloadedValid ==
    /\ \A var \in (DOMAIN dd.variables) \ {"metadata"} :
          ReadUnder(dd, var, dd.variables[var], dd.variables["metadata"])
    /\ \A req \in InitRequests :
          (Call(req).exc = "" /\ Call(req).t.pre # <<>>) =>
              ReadUnder(Call(req).dd, req.var, Call(req).val, _metadata(Call(req).dd, 2))

(* ----------------------------- the cache: entries over the budget ------ *)
\* the puts of the trace t whose entry alone is larger than the byte budget of o
Oversize(o, t) == {i \in DOMAIN t.puts : t.puts[i].entry.nbytes > o.cache_max_bytes}

(* C24 (under SpecFlags): an entry whose bytes exceed cache_max_bytes is   *)
(* not in the cache after the put; when all the puts of a call are of such *)
(* entries, the cache holds after the call the entries it held, none       *)
(* evicted and the bytes in total the same; and the call returns the value *)
(* of the entry of its own put without an error.                           *)
C24_OversizeRejected ==
    /\ \A e \in Range(dd.cache) : e.nbytes <= dd.cache_max_bytes
    /\ \A req \in FlagRequests :
          /\ \A i \in Oversize(dd, Call(req).t) :
                /\ \A e \in Range(Call(req).dd.cache) :
                      Key(e) # Key(Call(req).t.puts[i].entry)
                /\ Call(req).t.puts[i].d = 0 =>
                      /\ Call(req).exc = ""
                      /\ Call(req).val = Call(req).t.puts[i].entry.value
                      /\ Call(req).val # NoneVal
          /\ (Oversize(dd, Call(req).t) = DOMAIN Call(req).t.puts) =>
                /\ Range(Call(req).dd.cache) = Range(dd.cache)
                /\ Len(Call(req).dd.cache) = Len(dd.cache)
                /\ SumBytes(Call(req).dd.cache) = SumBytes(dd.cache)

(* the cache holds an entry, and the whole array of 'r', which is larger   *)
(* than the budget, is to be cached: the value is returned and the cache   *)
(* is as it was                                                            *)
C24_Witness ==
    /\ dd.cache # <<>>
    /\ \E n \in {0, 1, 2} :
          LET c == Call([Req("r") EXCEPT !.cache_with_nfluid = Some(n),
                                         !.check_cache = FALSE])
          IN  /\ Len(c.t.puts) = 1
              /\ c.t.puts[1].entry.nbytes > dd.cache_max_bytes
              /\ c.val = c.t.puts[1].entry.value
              /\ c.dd.cache = dd.cache

(* ----------------------------- SpecToggle: caching on and off ---------- *)
(* A cache of MaxNarr arrays and MaxBytes bytes; caching is turned off and *)
(* on again while values are requested, cached and the snapshot is set.    *)
ToggleRequests ==
    {q \in Resolving({"r", "tg"}, {None}) : ~q.panic}
      \cup Naming({"r"}, {Scalar(MaxSnap)}, {}, {}, {}, Slices)

InitToggle == dd = EbysusData(Config(0, TRUE, TRUE, MaxBytes, MaxNarr, TRUE)).dd

\* dd.do_caching = True or dd.do_caching = False, from outside
SetDoCaching == \E b \in BOOLEAN : dd' = set_do_caching(dd, b)

NextToggle ==
    \/ GetVar(ToggleRequests)
    \/ SetDoCaching

SpecToggle == InitToggle /\ [][NextToggle]_vars

\* the call that ended with c did not look in the cache of o and did not write to it
CacheIgnored(o, c) ==
    /\ c.t.lookups = <<>> /\ c.t.hits = <<>> /\ c.t.puts = <<>>
    /\ c.dd.cache = o.cache

(* C25 as it is stated: while caching is disabled the cache holds no entry *)
(* (disabling has emptied it and no write adds to it), so that no entry    *)
(* written before the disable is there after the re-enable; and while      *)
(* caching is disabled no call looks in the cache or writes to it.         *)
C25_DisableClears ==
    /\ ~caching(dd) => dd.cache = <<>>
    /\ set_do_caching(dd, FALSE).cache = <<>>
    /\ ~caching(dd) => \A req \in ToggleRequests : CacheIgnored(dd, Call(req))

\* the entry e of the cache of o is returned for its name once caching is on
Survives(o, e) ==
    _metadata_is_consistent(o, e.metadata) =>
        /\ get_var(set_do_caching(o, TRUE), NoTrace, Req(e.var), 0).t.hits # <<>>
        /\ get_var(set_do_caching(o, TRUE), NoTrace, Req(e.var), 0).t.hits[1].entry.var = e.var
        /\ get_var(set_do_caching(o, TRUE), NoTrace, Req(e.var), 0).t.stages = <<>>
        /\ get_var(set_do_caching(o, TRUE), NoTrace, Req(e.var), 0).val
              \in {x.value : x \in Range(o.cache)}

(* C25 as the code has it: turning caching off or on leaves the entries of *)
(* the cache as they are; while caching is off no call looks in the cache  *)
(* or writes to it, so the cache is as it was at the disable; and once     *)
(* caching is on again an entry that is valid for the live context is      *)
(* returned without a stage being run.                                     *)
C25_DisableKeepsEntries ==
    /\ \A b \in BOOLEAN : set_do_caching(dd, b).cache = dd.cache
    /\ ~caching(dd) =>
          /\ \A req \in ToggleRequests : CacheIgnored(dd, Call(req))
          /\ \A e \in Range(dd.cache) : Survives(dd, e)

(* caching is off, the cache holds the entry of 'tg' written before, and   *)
(* the entry is returned for 'tg' when caching is on again                 *)
C25_Witness ==
    /\ ~caching(dd) /\ dd.cache # <<>>
    /\ \E e \in Range(dd.cache) :
          /\ e.var = "tg" /\ _metadata_is_consistent(dd, e.metadata)
          /\ Call(Req("tg")).t.stages # <<>>
          /\ get_var(set_do_caching(dd, TRUE), NoTrace, Req("tg"), 0).t.hits[1].entry = e
          /\ get_var(set_do_caching(dd, TRUE), NoTrace, Req("tg"), 0).val = e.value

(* ----------------------------- SpecInstall: the context of a request --- *)
(* No cache; a pool of one memmap that set_snap empties or keeps.  The     *)
(* requests name any of the snapshot, the fluids, match_type and panic at  *)
(* once, for a variable of the files and for a derived one.                *)
InstallRequests ==
    [var : {"r", "nrj"},
     snap : Opt({Scalar(MaxSnap), ArrayOf(<<FirstSnap, MaxSnap>>)}),
     ifluid : Opt({<<MaxSpecies, 1>>, Electrons}), jfluid : Opt({<<MaxSpecies, 1>>}),
     match_type : Opt({MATCH_AUX}), panic : BOOLEAN, iix : {None},
     check_cache : {TRUE}, cache : {FALSE}, cache_with_nfluid : {None}]

InitInstall ==
    \E mm_persnap \in BOOLEAN :
        dd = EbysusData(Config(1, mm_persnap, FALSE, FullBytes, 1, TRUE)).dd

NextInstall ==
    \/ GetVar(InstallRequests)
    \/ SetSnap({Scalar(FirstSnap)})

SpecInstall == InitInstall /\ [][NextInstall]_vars

\* the record of the outermost _load_quantity of the call c
OuterCall(c) == At(c.t.calls, 0)[1]

\* the context that the call c of req on the object o has installed
Installs(o, req, c) ==
    /\ c.dd.ifluid = OrElse(req.ifluid, o.ifluid)
    /\ c.dd.jfluid = OrElse(req.jfluid, o.jfluid)
    /\ c.dd.match_type = OrElse(req.match_type, o.match_type)
    /\ c.dd.snap = OrElse(req.snap, o.snap)
    /\ Len(At(c.t.calls, 0)) = 1
    /\ OuterCall(c).entry = <<c.dd.ifluid, c.dd.jfluid, c.dd.match_type>>
    /\ OuterCall(c).panic = <<req.panic, c.dd.snap>>
    /\ At(c.t.calls, 1) = <<>> => c.dd.panic = req.panic
    /\ ~req.panic => ~c.dd.panic

\* whether the call of req on the object o names another snapshot than the current one
Differs(o, req) == req.snap # None /\ req.snap[1] # o.snap

LayoutSnaps == {Scalar(s) : s \in Snaps \cup {0, -1}}

InitLayout ==
    \E ebysus_like \in BOOLEAN :
        dd = EbysusData([Config(1, TRUE, FALSE, FullBytes, 1, TRUE)
                             EXCEPT !.ebysus_like = ebysus_like]).dd

\* a call of dd._get_simple_var(var) from outside
GetSimpleVar == \E var \in {"r", "e", "bx", "mm_nu"} :
                    dd' = _get_simple_var(dd, NoTrace, var, FALSE).dd

NextLayout ==
    \/ GetSimpleVar
    \/ SetSnap(LayoutSnaps)
    \/ SetFluids(AllFluids, Fluids)

SpecLayout == InitLayout /\ [][NextLayout]_vars

(* C28: for every simple variable whose file is found, the path computed   *)
(* by _get_simple_var_file_info is under '<file_root>.io' if the snapshot  *)
(* is ebysus-like, and is the bare name of the file of the group, under no *)
(* directory, if the snapshot is bifrost-like.                             *)
C28_BifrostPathIsBare ==
    \A i \in DOMAIN simple_vars(dd) :
        _get_simple_var_file_info(dd, simple_vars(dd)[i], FALSE).exc = "" =>
            _get_simple_var_file_info(dd, simple_vars(dd)[i], FALSE).filename[1].snapdir
                = IF dd.ebysus_like THEN "io" ELSE ""

(* ----------------------------- SpecAux: the lists of _set_snapvars ----- *)
(* The object here is the part of EbysusData that _set_snapvars works on:  *)
(* aux, the names of params['aux'] of the snapshot, and the lists made of  *)
(* them.  A name is the sequence of its characters, so that startswith and *)
(* 'in' are computed as Python computes them.                              *)
MaxAux == 3

AuxNames == {<<"t", "a", "u">>, <<"j", "x", "y">>, <<"e", "y", "z">>,
             <<"i", "x", "y", "1">>, <<"m", "m", "_", "x", "z">>}

\* the aux lists a snapshot declares: up to MaxAux names, each once
AuxLists ==
    {l \in UNION {[1..n -> AuxNames] : n \in 0..MaxAux} :
        \A i, j \in DOMAIN l : l[i] = l[j] => i = j}

\* var.startswith(prefix)
StartsWith(var, prefix) ==
    Len(var) >= Len(prefix) /\ SubSeq(var, 1, Len(prefix)) = prefix

\* sub in var
Contains(var, sub) ==
    \E k \in 0..(Len(var) - Len(sub)) : SubSeq(var, k + 1, k + Len(sub)) = sub

\* any(i in var for i in ('xy', 'yz', 'xz'))
Is2D(var) ==
    \E sub \in {<<"x", "y">>, <<"y", "z">>, <<"x", "z">>} : Contains(var, sub)

\* list.remove(x): the list without the first x
ListRemove(list, x) == RemoveAt(list, IndexOf(list, x))

\* for var in vars: list.remove(var)
RECURSIVE RemoveEach(_, _)
RemoveEach(list, names) ==
    IF names = <<>> THEN list
    ELSE RemoveEach(ListRemove(list, Head(names)), Tail(names))

(* for var in self.auxvars: if any(...): self.auxvars.remove(var);         *)
(* self.vars2d.append(var) -- the iterator of a Python list goes by index, *)
(* i being the index of the next element, over the list as it is then.     *)
RECURSIVE _move_vars2d(_, _, _)
_move_vars2d(list, i, vars2d) ==
    IF i >= Len(list) THEN [auxvars |-> list, vars2d |-> vars2d]
    ELSE IF Is2D(list[i + 1])
    THEN _move_vars2d(ListRemove(list, list[i + 1]), i + 1, Append(vars2d, list[i + 1]))
    ELSE _move_vars2d(list, i + 1, vars2d)

\* the names of the list that start with prefix
Prefixed(list, prefix) == SelectSeq(list, LAMBDA v : StartsWith(v, prefix))

\* EbysusData._set_snapvars, as far as the lists made of the aux names go
_set_snapvars(o) ==
    LET a == o.aux
        mfc == Prefixed(a, <<"m", "f", "c", "_">>)
        mf  == Prefixed(a, <<"m", "f", "_">>)
        mm  == Prefixed(a, <<"m", "m", "_">>)
        mfr == Prefixed(a, <<"m", "f", "r", "_">>)
        mfp == Prefixed(a, <<"m", "f", "p", "_">>)
        mfe == Prefixed(a, <<"m", "f", "e", "_">>)
        a1 == RemoveEach(a, mfr \o mfp \o mfe \o mfc \o mf \o mm)
        ixy1 == <<"i", "x", "y", "1">>
        a2 == IF In(ixy1, a1) THEN ListRemove(a1, ixy1) ELSE a1
        moved == _move_vars2d(a2, 0, o.vars2d)
    IN  [o EXCEPT !.varsmfc = mfc, !.varsmf = mf, !.varsmm = mm, !.varsmfr = mfr,
                  !.varsmfp = mfp, !.varsmfe = mfe,
                  !.auxxyvars = IF In(ixy1, a1) THEN <<ixy1>> ELSE <<>>,
                  !.auxvars = moved.auxvars,
                  !.vars2d = moved.vars2d]

\* the object when the parameters of a snapshot with the aux list aux were read
SnapParams(aux) ==
    [aux |-> aux, auxvars |-> <<>>, vars2d |-> <<>>, auxxyvars |-> <<>>,
     varsmfc |-> <<>>, varsmf |-> <<>>, varsmm |-> <<>>, varsmfr |-> <<>>,
     varsmfp |-> <<>>, varsmfe |-> <<>>]

InitAux == \E aux \in AuxLists : dd = SnapParams(aux)

\* self._set_snapvars(), as set_snap and __init__ call it
SetSnapvars ==
    /\ Len(dd.vars2d) <= MaxAux
    /\ dd' = _set_snapvars(dd)

\* the parameters of another snapshot are read; vars2d is never emptied, so
\* the snapshots go on while it is empty
ReadParams ==
    /\ dd.vars2d = <<>>
    /\ \E aux \in AuxLists : dd' = [dd EXCEPT !.aux = aux]

NextAux == SetSnapvars \/ ReadParams

SpecAux == InitAux /\ [][NextAux]_vars

(* C29: after _set_snapvars no name of auxvars contains 'xy', 'yz' or      *)
(* 'xz', and every name of the aux list that contains one of them, and is  *)
(* not 'ixy1' or a name of the multi-fluid groups, was appended to vars2d. *)
C29_No2DLeftInAuxvars ==
    /\ \A i \in DOMAIN _set_snapvars(dd).auxvars : ~Is2D(_set_snapvars(dd).auxvars[i])
    /\ \A i \in DOMAIN dd.aux :
          (Is2D(dd.aux[i]) /\ dd.aux[i] # <<"i", "x", "y", "1">>
                           /\ ~StartsWith(dd.aux[i], <<"m", "m", "_">>))
              => In(dd.aux[i], SubSeq(_set_snapvars(dd).vars2d, Len(dd.vars2d) + 1,
                                      Len(_set_snapvars(dd).vars2d)))
====
